---- MODULE Spec2Model ----
(***************************************************************************)
(* Material state and property evaluation of adamantine:                   *)
(* MaterialProperty::update, MaterialProperty::compute_material_property   *)
(* and MaterialProperty::compute_property_from_table                       *)
(* (source/MaterialProperty.templates.hh).                                 *)
(*                                                                         *)
(* A double is modelled as an exact value <<n, d>>: the rational n/d in    *)
(* lowest terms when d > 0, and the IEEE special values when d = 0         *)
(* (<<0,0>> is NaN, <<1,0>> is +inf, <<-1,0>> is -inf).  Round-off is not  *)
(* modelled: finite results are exact.                                     *)
(***************************************************************************)
EXTENDS Integers, Sequences, FiniteSets, TLC

VARIABLES
  _use_table,           \* MaterialProperty::_use_table
  material_id,          \* cell->material_id() of every locally owned cell
  user_index,           \* cell->user_index() of every locally owned cell
  _state,               \* MaterialProperty::_state, per unit and material state
  _property_values,     \* MaterialProperty::_property_values
  temperature_average,  \* the projection used by the last update()
  last_op,              \* the operation that produced the current state
  melted,               \* history: the unit was once taken from all solid to
                        \* all liquid by an update above the liquidus
  table_pairs,          \* evaluation harness: number of pairs of the table spec
  table_view,           \* evaluation harness: the stored (padded) table
  poly_view,            \* evaluation harness: stored coefficients per state
  state_ratios,         \* evaluation harness: state_ratios argument
  temperature,          \* evaluation harness: temperature argument
  value,                \* the value returned by the last operation, 0 after
                        \* an operation that returns nothing
  locally_owned,        \* the locally owned active cells of the triangulation
  mp_dof,               \* _mp_dof_handler: the dof index of every cell it
                        \* has enumerated
  _dofs_map,            \* MaterialProperty::_dofs_map
  database,             \* the "materials" property tree given to the
                        \* constructor
  thrown,               \* fill_properties left by ASSERT_THROW
  state_property_host,  \* state_property_tables_host or
                        \* state_property_polynomials_host, per state
  mechanical_property_host,     \* _mechanical_properties_tables_host or
                                \* _mechanical_properties_polynomials_host
  _mechanical_properties_host,  \* MaterialProperty::_mechanical_properties_host
  enth_active_fe_index, \* active_fe_index() of every cell of the thermal
                        \* DoFHandler: 0 is FE_Q, 1 is FE_Nothing
  active_fe_index,      \* active_fe_index() of every cell of
                        \* MechanicalPhysics::_dof_handler
  nodal_temperature,    \* the temperature vector: one value per node of the
                        \* thermal DoFHandler
  written,              \* the columns of _state and _property_values that
                        \* the last operation wrote
  lane,                 \* update(): where the for_each body stands for every
                        \* i, and its local liquid_ratio
  state_at_call         \* history: _state when the running update() began

vars == <<_use_table, material_id, user_index, _state, _property_values,
          temperature_average, last_op, melted, table_pairs, table_view, poly_view,
          state_ratios, temperature, value, locally_owned, mp_dof, _dofs_map,
          database, thrown, state_property_host, mechanical_property_host,
          _mechanical_properties_host, enth_active_fe_index, active_fe_index,
          nodal_temperature, written, lane, state_at_call>>

index_vars == <<locally_owned, mp_dof, _dofs_map>>

fill_vars == <<database, thrown, state_property_host, mechanical_property_host,
               _mechanical_properties_host>>

mesh_vars == <<enth_active_fe_index, active_fe_index, nodal_temperature,
               written>>

lane_vars == <<lane, state_at_call>>

kernel_vars == <<_use_table, material_id, user_index, _state, _property_values,
                 temperature_average, melted>>

harness_vars == <<table_pairs, table_view, poly_view, state_ratios,
                  temperature, value>>

-----------------------------------------------------------------------------
(* Bounds of the model.                                                    *)

\* Number of locally owned cells (units).
NumUnits == 1

\* Cell-average temperatures range over 0..MaxTemp.
MaxTemp == 5

\* Capacity of a property table (MaterialProperty::table_size, declared in
\* MaterialProperty.hh); every result is checked for this capacity and for
\* the next one.
table_size == 4

\* MaterialProperty::polynomial_order (declared in MaterialProperty.hh).
polynomial_order == 3

\* Table breakpoints of the evaluation harness are 0, 2, .., 2 * MaxBreak and
\* its temperatures -1 .. 2 * MaxBreak + 1.
MaxBreak == 3

\* Table values and polynomial coefficients of the evaluation harness range
\* over 0..MaxCoef.
MaxCoef == 1

\* material_ids_size of the update() whose for_each is followed step by step:
\* the body runs for i in 0..NumLanes - 1.
NumLanes == 2

\* The triangulation has the cells 1..MaxCells, in iteration order.
MaxCells == 3

\* The dof indices of the locally owned cells are a block that starts at an
\* index in 0..MaxFirstDof.
MaxFirstDof == 1

-----------------------------------------------------------------------------
(* double arithmetic                                                       *)

RECURSIVE GCD(_, _)
GCD(a, b) == IF b = 0 THEN a ELSE GCD(b, a % b)

Abs(x) == IF x < 0 THEN -x ELSE x

Sgn(x) == IF x < 0 THEN -1 ELSE IF x > 0 THEN 1 ELSE 0

\* The double n/d; a zero denominator gives NaN (0/0) or a signed infinity.
Rat(n, d) ==
  IF d = 0 THEN <<Sgn(n), 0>>
  ELSE LET g == GCD(Abs(n), Abs(d))
       IN  <<(Sgn(d) * n) \div g, Abs(d) \div g>>

Num(k) == <<k, 1>>

NaN == <<0, 0>>

IsNaN(x) == x = NaN

IsFinite(x) == x[2] # 0

\* a + b, over the least common denominator
Add(a, b) ==
  IF a[2] = 0 /\ b[2] = 0
  THEN (IF a = b THEN a ELSE NaN)
  ELSE IF a[2] = 0 THEN a
  ELSE IF b[2] = 0 THEN b
  ELSE LET g == GCD(a[2], b[2])
       IN  Rat(a[1] * (b[2] \div g) + b[1] * (a[2] \div g),
               (a[2] \div g) * b[2])

\* a - b
Sub(a, b) == Add(a, <<-b[1], b[2]>>)

\* a * b
Mul(a, b) == Rat(a[1] * b[1], a[2] * b[2])

\* a / b: 0/0 is NaN and x/0 is a signed infinity, as IEEE 754 has it.
Div(a, b) ==
  Rat(a[1] * b[2] * (IF b[1] < 0 THEN -1 ELSE 1), a[2] * Abs(b[1]))

\* a < b, false when either is NaN
Lt(a, b) ==
  /\ ~IsNaN(a)
  /\ ~IsNaN(b)
  /\ IF a[2] = 0 /\ b[2] = 0 THEN a[1] < b[1]
     ELSE a[1] * b[2] < b[1] * a[2]

\* a <= b, false when either is NaN
Leq(a, b) == ~IsNaN(a) /\ ~IsNaN(b) /\ ~Lt(b, a)

\* std::min(a, b): (b < a) ? b : a
StdMin(a, b) == IF Lt(b, a) THEN b ELSE a

\* std::max(a, b): (a < b) ? b : a
StdMax(a, b) == IF Lt(a, b) THEN b ELSE a

\* std::pow(x, i) for an integer i >= 0; pow(x, 0) is 1 for every x.
RECURSIVE Pow(_, _)
Pow(x, i) == IF i = 0 THEN Num(1) ELSE Mul(x, Pow(x, i - 1))

-----------------------------------------------------------------------------
(* Enumerations used by the kernel (types.hh).                             *)

\* MaterialState
MaterialStates == <<"powder", "solid", "liquid">>

g_n_material_states == Len(MaterialStates)

\* The thermal members of StateProperty, in storage order.
ThermalStateProperties ==
  <<"density", "specific_heat", "thermal_conductivity", "emissivity",
    "radiation_heat_transfer_coef", "convection_heat_transfer_coef">>

g_n_thermal_state_properties == Len(ThermalStateProperties)

\* Index of a thermal property in the storage order.
PropertyIndex(name) ==
  CHOOSE p \in 1..g_n_thermal_state_properties : ThermalStateProperties[p] = name

\* Constant::stefan_boltzmann, kept symbolic: the kernel only multiplies by it.
stefan_boltzmann == Rat(1, 8)

Units == 1..NumUnits

Temps == {Num(t) : t \in 0..MaxTemp}

-----------------------------------------------------------------------------
(* The material database (the "materials" property tree).                  *)

\* Material 0 melts between solidus 1 and liquidus 4; material 1 has
\* solidus = liquidus = 2; material 2 gives neither solidus nor liquidus;
\* material 3 gives a solidus of 1 and no liquidus.
MaterialIds == {0, 1, 2, 3}

\* The material with solidus 1000, liquidus 1100 and latent heat 500; no
\* cell of the mesh is made of it.
ExampleMaterial == 4

\* The state-independent entries of material m (property_names), Absent
\* when the tree has no such entry.
Absent == <<>>

MaterialDatabase(m) ==
  CASE m = 0 ->
         [solidus |-> Num(1), liquidus |-> Num(4), latent_heat |-> Num(6),
          radiation_temperature_infty |-> Num(1)]
    [] m = 1 ->
         [solidus |-> Num(2), liquidus |-> Num(2), latent_heat |-> Num(6),
          radiation_temperature_infty |-> Num(1)]
    [] m = 2 ->
         [solidus |-> Absent, liquidus |-> Absent, latent_heat |-> Num(6),
          radiation_temperature_infty |-> Num(1)]
    [] m = 3 ->
         [solidus |-> Num(1), liquidus |-> Absent, latent_heat |-> Num(6),
          radiation_temperature_infty |-> Num(1)]
    [] OTHER ->
         [solidus |-> Num(1000), liquidus |-> Num(1100),
          latent_heat |-> Num(500), radiation_temperature_infty |-> Num(1)]

\* std::numeric_limits<double>::max(), kept symbolic: a finite value above
\* every temperature and every table entry of the model.
numeric_limits_max == Num(2000)

\* The table entry "b1,v1;b2,v2;.." of material m, state s, property p,
\* already split at ';' and ',' and converted by std::stod.
TableEntry(m, s, p) ==
  [i \in 1..(1 + ((s + p) % table_size)) |->
     <<Num(2 * (i - 1)), Num((s * i + p + m) % 5)>>]

\* The polynomial entry "c0,c1,.." of material m, state s, property p,
\* already split at ',' and converted by std::stod.
PolynomialEntry(m, s, p) ==
  [i \in 1..(1 + ((s + p) % polynomial_order)) |-> Num((s + p * i + m) % 3)]

-----------------------------------------------------------------------------
(* fill_properties: the stored curves.                                     *)

\* "fill the rest with the last value": slot i copies slot i - 1.
RECURSIVE PadTable(_)
PadTable(t) ==
  IF Len(t) >= table_size THEN t ELSE PadTable(Append(t, t[Len(t)]))

\* The block is zeroed, then the parsed coefficients are written.
PadPolynomial(c) ==
  [i \in 1..(polynomial_order + 1) |-> IF i <= Len(c) THEN c[i] ELSE Num(0)]

\* The blocks fill_properties fills once, at construction.
_state_property_tables ==
  [m \in MaterialIds \cup {ExampleMaterial} |->
     [s \in 1..g_n_material_states |->
        [p \in 1..g_n_thermal_state_properties |-> PadTable(TableEntry(m, s, p))]]]

_state_property_polynomials ==
  [m \in MaterialIds \cup {ExampleMaterial} |->
     [s \in 1..g_n_material_states |->
        [p \in 1..g_n_thermal_state_properties |->
           PadPolynomial(PolynomialEntry(m, s, p))]]]

\* "If the property does not exist, we use the largest possible value."
_properties ==
  [m \in MaterialIds \cup {ExampleMaterial} |->
     [p \in DOMAIN MaterialDatabase(m) |->
        IF MaterialDatabase(m)[p] = Absent THEN numeric_limits_max
        ELSE MaterialDatabase(m)[p]]]

\* _state_property_tables(m, s, p, ., .)
state_property_tables_view(m, s, p) == _state_property_tables[m][s][p]

\* _state_property_polynomials(m, s, p, .)
state_property_polynomials_view(m, s, p) == _state_property_polynomials[m][s][p]

\* _properties(m, .)
properties_view(m) == _properties[m]

-----------------------------------------------------------------------------
(* compute_property_from_table                                             *)

\* The loop "for (; i < size; ++i) if (temperature < table(i, 0)) break;":
\* the value of i when it ends (0-based, as in the source).
RECURSIVE ScanTable(_, _, _)
ScanTable(t, T, i) ==
  IF i < Len(t) /\ ~Lt(T, t[i + 1][1]) THEN ScanTable(t, T, i + 1) ELSE i

\* i >= size replaces i >= size - 1: the last segment is interpolated too and
\* the scan may run off the table.
compute_property_from_table_last_segment(t, T) ==
  IF Leq(T, t[1][1]) THEN t[1][2]
  ELSE LET size == Len(t)
           i == ScanTable(t, T, 0)
       IN  IF i >= size THEN t[size][2]
           ELSE Add(t[i][2],
                    Div(Mul(Sub(T, t[i][1]), Sub(t[i + 1][2], t[i][2])),
                        Sub(t[i + 1][1], t[i][1])))

\* t is the table of one (material, state, property): t[i + 1] is the pair
\* (table(i, 0), table(i, 1)) of the source.
compute_property_from_table(t, T) ==
  IF Leq(T, t[1][1]) THEN t[1][2]
  ELSE LET size == Len(t)
           i == ScanTable(t, T, 0)
       IN  IF i >= size - 1 THEN t[size][2]
           ELSE Add(t[i][2],
                    Div(Mul(Sub(T, t[i][1]), Sub(t[i + 1][2], t[i][2])),
                        Sub(t[i + 1][1], t[i][1])))

\* The first test is missing: a temperature at or below the first breakpoint
\* reaches the scan too.
table_branch_no_first_test(t, T) ==
  LET size == Len(t)
      i == ScanTable(t, T, 0)
  IN  IF i >= size - 1 THEN [branch |-> "last", i |-> i]
      ELSE [branch |-> "interpolate", i |-> i]

\* The return statement compute_property_from_table reaches, and the value
\* of i there (0-based, 0 when the scan is not run).
table_branch(t, T) ==
  IF Leq(T, t[1][1]) THEN [branch |-> "first", i |-> 0]
  ELSE LET size == Len(t)
           i == ScanTable(t, T, 0)
       IN  IF i >= size - 1 THEN [branch |-> "last", i |-> i]
           ELSE [branch |-> "interpolate", i |-> i]

-----------------------------------------------------------------------------
(* Polynomial evaluation: the loops over material_state and i.             *)

\* std::pow(T, i + 1) replaces std::pow(T, i).
RECURSIVE AccumulatePolynomial_shifted(_, _, _, _, _)
AccumulatePolynomial_shifted(acc, ratio, c, T, i) ==
  IF i > polynomial_order THEN acc
  ELSE AccumulatePolynomial_shifted(
         Add(acc, Mul(Mul(ratio, c[i + 1]), Pow(T, i + 1))), ratio, c, T, i + 1)

\* for (i = 0; i <= polynomial_order; ++i)
\*   acc += ratio * coeff(i) * std::pow(T, i);
RECURSIVE AccumulatePolynomial(_, _, _, _, _)
AccumulatePolynomial(acc, ratio, c, T, i) ==
  IF i > polynomial_order THEN acc
  ELSE AccumulatePolynomial(Add(acc, Mul(Mul(ratio, c[i + 1]), Pow(T, i))),
                            ratio, c, T, i + 1)

\* Blend over the material states, accumulating into a zeroed entry.
\* ratios[s] is the fraction of state s, curves[s] the stored curve of state s.
RECURSIVE AccumulateStates(_, _, _, _, _, _)
AccumulateStates(acc, ratios, curves, T, use_table, s) ==
  IF s > g_n_material_states THEN acc
  ELSE AccumulateStates(
         IF use_table
         THEN Add(acc, Mul(ratios[s], compute_property_from_table(curves[s], T)))
         ELSE AccumulatePolynomial(acc, ratios[s], curves[s], T, 0),
         ratios, curves, T, use_table, s + 1)

\* compute_material_property(state_property, material_id, state_ratios, T)
compute_material_property(ratios, curves, T, use_table) ==
  AccumulateStates(Num(0), ratios, curves, T, use_table, 1)


-----------------------------------------------------------------------------
(* MaterialProperty::update, the work of one unit.                         *)

\* The quotient is taken over liquidus alone.
liquid_ratio_of_wrong_interval(T, solidus, liquidus) ==
  IF Lt(T, solidus) THEN Num(0)
  ELSE IF Lt(liquidus, T) THEN Num(1)
  ELSE Div(Sub(T, solidus), liquidus)

\* "First determine the ratio of liquid."
liquid_ratio_of(T, solidus, liquidus) ==
  IF Lt(T, solidus) THEN Num(0)
  ELSE IF Lt(liquidus, T) THEN Num(1)
  ELSE Div(Sub(T, solidus), Sub(liquidus, solidus))

\* Any liquid consumes all the powder of the unit, whatever solid there is.
new_state_powder_first(T, m, old_powder) ==
  LET liquid_ratio == liquid_ratio_of(T, properties_view(m).solidus,
                                      properties_view(m).liquidus)
      powder_ratio == IF Lt(Num(0), liquid_ratio) THEN Num(0) ELSE old_powder
      solid_ratio  == StdMax(Sub(Sub(Num(1), liquid_ratio), powder_ratio), Num(0))
  IN  [liquid |-> liquid_ratio, powder |-> powder_ratio, solid |-> solid_ratio]

\* The three ratios written to state_view for a unit whose powder ratio was
\* old_powder.
new_state(T, m, old_powder) ==
  LET liquid_ratio == liquid_ratio_of(T, properties_view(m).solidus,
                                      properties_view(m).liquidus)
      powder_ratio == StdMin(Sub(Num(1), liquid_ratio), old_powder)
      solid_ratio  == StdMax(Sub(Sub(Num(1), liquid_ratio), powder_ratio), Num(0))
  IN  [liquid |-> liquid_ratio, powder |-> powder_ratio, solid |-> solid_ratio]

\* state_view(material_state, dof) by the index of the material state.
RatiosOf(st) == [s \in 1..g_n_material_states |-> st[MaterialStates[s]]]

\* The stored curves of material m and property p, one per material state.
CurvesOf(m, p, use_table) ==
  [s \in 1..g_n_material_states |->
     IF use_table THEN state_property_tables_view(m, s, p)
     ELSE state_property_polynomials_view(m, s, p)]

\* The sum over the states of state * latent_heat / (liquidus - solidus),
\* added to acc.
RECURSIVE AccumulateLatentHeat(_, _, _, _)
AccumulateLatentHeat(acc, ratios, m, s) ==
  IF s > g_n_material_states THEN acc
  ELSE AccumulateLatentHeat(
         Add(acc, Div(Mul(ratios[s], properties_view(m).latent_heat),
                      Sub(properties_view(m).liquidus, properties_view(m).solidus))),
         ratios, m, s + 1)

\* h_rad = emissivity * stefan_boltzmann * (T + T_infty) * (T^2 + T_infty^2)
radiation_heat_transfer_coef_of(emissivity, T, T_infty) ==
  Mul(Mul(Mul(emissivity, stefan_boltzmann), Add(T, T_infty)),
      Add(Mul(T, T), Mul(T_infty, T_infty)))

\* The mushy zone is taken to include liquid_ratio = 0 and liquid_ratio = 1.
property_values_of_closed_interval(st_blend, liquid_ratio, T, m, use_table) ==
  LET ratios == RatiosOf(st_blend)
      blended == [p \in 1..g_n_thermal_state_properties |->
                    compute_material_property(ratios, CurvesOf(m, p, use_table),
                                              T, use_table)]
      sh == PropertyIndex("specific_heat")
      mushy == IF Leq(Num(0), liquid_ratio) /\ Leq(liquid_ratio, Num(1))
               THEN [blended EXCEPT ![sh] = AccumulateLatentHeat(@, ratios, m, 1)]
               ELSE blended
  IN  [mushy EXCEPT ![PropertyIndex("radiation_heat_transfer_coef")] =
         radiation_heat_transfer_coef_of(
           mushy[PropertyIndex("emissivity")], T,
           properties_view(m).radiation_temperature_infty)]

\* The radiation coefficient is added to the blend of the curves stored for
\* it instead of being assigned.
property_values_of_radiation_accumulated(st_blend, liquid_ratio, T, m, use_table) ==
  LET ratios == RatiosOf(st_blend)
      blended == [p \in 1..g_n_thermal_state_properties |->
                    compute_material_property(ratios, CurvesOf(m, p, use_table),
                                              T, use_table)]
      sh == PropertyIndex("specific_heat")
      mushy == IF Lt(Num(0), liquid_ratio) /\ Lt(liquid_ratio, Num(1))
               THEN [blended EXCEPT ![sh] = AccumulateLatentHeat(@, ratios, m, 1)]
               ELSE blended
  IN  [mushy EXCEPT ![PropertyIndex("radiation_heat_transfer_coef")] =
         Add(@, radiation_heat_transfer_coef_of(
                  mushy[PropertyIndex("emissivity")], T,
                  properties_view(m).radiation_temperature_infty))]

\* The property values of a unit: st_blend is the state the blending loops
\* read, liquid_ratio the local of the same name.
property_values_of(st_blend, liquid_ratio, T, m, use_table) ==
  LET ratios == RatiosOf(st_blend)
      blended == [p \in 1..g_n_thermal_state_properties |->
                    compute_material_property(ratios, CurvesOf(m, p, use_table),
                                              T, use_table)]
      sh == PropertyIndex("specific_heat")
      mushy == IF Lt(Num(0), liquid_ratio) /\ Lt(liquid_ratio, Num(1))
               THEN [blended EXCEPT ![sh] = AccumulateLatentHeat(@, ratios, m, 1)]
               ELSE blended
  IN  [mushy EXCEPT ![PropertyIndex("radiation_heat_transfer_coef")] =
         radiation_heat_transfer_coef_of(
           mushy[PropertyIndex("emissivity")], T,
           properties_view(m).radiation_temperature_infty)]

\* The blending loops run before the new ratios are written: they read the
\* ratios the unit had before this update.
update_unit_stale_state(st, T, m, use_table) ==
  LET ns == new_state(T, m, st.powder)
  IN  [state |-> ns,
       values |-> property_values_of(st, ns.liquid, T, m, use_table)]

\* The mushy-zone test reads the liquid ratio the previous call left in
\* state_view instead of the local computed by this call.
update_unit_stale_liquid_ratio(st, T, m, use_table) ==
  LET ns == new_state(T, m, st.powder)
  IN  [state |-> ns,
       values |-> property_values_of(ns, st.liquid, T, m, use_table)]

\* The body of the for_each of update() for one unit whose ratios are st: the
\* new ratios are written first, the blending loops read them back.
update_unit(st, T, m, use_table) ==
  LET ns == new_state(T, m, st.powder)
  IN  [state |-> ns,
       values |-> property_values_of(ns, ns.liquid, T, m, use_table)]

\* "We only care about properties that are used to compute the boundary
\* condition. So we start at 3."
boundary_first_property == 3

\* The loop starts at 0: every thermal property is blended.
boundary_property_values_of_from_zero(st, T, m, use_table) ==
  LET ratios == RatiosOf(st)
      blended == [p \in 1..g_n_thermal_state_properties |->
                    compute_material_property(
                      ratios, CurvesOf(m, p, use_table), T, use_table)]
  IN  [blended EXCEPT ![PropertyIndex("radiation_heat_transfer_coef")] =
         radiation_heat_transfer_coef_of(
           blended[PropertyIndex("emissivity")], T,
           properties_view(m).radiation_temperature_infty)]

\* The property values update_boundary_material_properties gives a unit whose
\* ratios are st: a zeroed column, the properties from boundary_first_property
\* on blended, then the radiation coefficient.  Property p of the model is
\* property p - 1 of the source.
boundary_property_values_of(st, T, m, use_table) ==
  LET ratios == RatiosOf(st)
      blended == [p \in 1..g_n_thermal_state_properties |->
                    IF p - 1 >= boundary_first_property
                    THEN compute_material_property(
                           ratios, CurvesOf(m, p, use_table), T, use_table)
                    ELSE Num(0)]
  IN  [blended EXCEPT ![PropertyIndex("radiation_heat_transfer_coef")] =
         radiation_heat_transfer_coef_of(
           blended[PropertyIndex("emissivity")], T,
           properties_view(m).radiation_temperature_infty)]

\* The ratios are recomputed and written as update() does.
update_boundary_unit_writes_state(st, T, m, use_table) ==
  [state |-> new_state(T, m, st.powder),
   values |-> boundary_property_values_of(st, T, m, use_table)]

\* The body of the cell loop of update_boundary_material_properties for one
\* unit whose ratios are st: state_view is only read.
update_boundary_unit(st, T, m, use_table) ==
  [state |-> st,
   values |-> boundary_property_values_of(st, T, m, use_table)]

\* dof_handler.get_fe().tensor_degree() + 1, for elements of degree 1.
n_q_points == 2

\* liquid_ratio_sum, powder_ratio_sum: the sum of the values at the
\* quadrature points.
RECURSIVE RatioSum(_, _)
RatioSum(q, i) == IF i > Len(q) THEN Num(0) ELSE Add(q[i], RatioSum(q, i + 1))

\* The ratios set_state writes for one cell, given the liquid and powder
\* ratios at its quadrature points.
set_state_unit(liquid_q, powder_q) ==
  LET liquid_ratio == Div(RatioSum(liquid_q, 1), Num(n_q_points))
      powder_ratio == Div(RatioSum(powder_q, 1), Num(n_q_points))
  IN  [liquid |-> liquid_ratio,
       powder |-> powder_ratio,
       solid  |-> StdMax(Sub(Sub(Num(1), liquid_ratio), powder_ratio), Num(0))]

\* The ratios the thermal operator holds at one quadrature point: the point
\* is all liquid, all powder or all solid.
PointRatios == {<<Num(1), Num(0)>>, <<Num(0), Num(1)>>, <<Num(0), Num(0)>>}

\* The (liquid, powder) ratios at the quadrature points of one cell.
CellRatios == [1..n_q_points -> PointRatios]

LiquidAt(c) == [q \in 1..n_q_points |-> c[q][1]]

PowderAt(c) == [q \in 1..n_q_points |-> c[q][2]]

\* set_initial_state: state_view(user_index, dof) = 1 on a zeroed block.
initial_state(tag) ==
  [s \in {"liquid", "powder", "solid"} |-> IF s = tag THEN Num(1) ELSE Num(0)]

\* Every value a powder ratio can take: 0 or 1 at construction, and after an
\* update either the old value or 1 - liquid_ratio.
PowderRatios ==
  {Num(0), Num(1)} \cup
  {set_state_unit(LiquidAt(c), PowderAt(c)).powder : c \in CellRatios} \cup
  {Sub(Num(1), liquid_ratio_of(T, properties_view(m).solidus,
                               properties_view(m).liquidus)) :
     T \in Temps, m \in MaterialIds}

\* Every value the three ratios of a unit can take.
UnitStates ==
  {initial_state(tag) : tag \in {"liquid", "powder", "solid"}} \cup
  {set_state_unit(LiquidAt(c), PowderAt(c)) : c \in CellRatios} \cup
  {new_state(T, m, q) : T \in Temps, m \in MaterialIds, q \in PowderRatios}

\* update_unit, tabulated once over its arguments.
update_unit_table ==
  [use_table \in BOOLEAN |-> [m \in MaterialIds |-> [T \in Temps |->
     [st \in UnitStates |-> update_unit(st, T, m, use_table)]]]]

\* update_boundary_unit, tabulated once over its arguments.
update_boundary_unit_table ==
  [use_table \in BOOLEAN |-> [m \in MaterialIds |-> [T \in Temps |->
     [st \in UnitStates |-> update_boundary_unit(st, T, m, use_table)]]]]

-----------------------------------------------------------------------------
(* Construction and update().                                              *)

NoHarness ==
  /\ table_pairs = 0
  /\ table_view = <<>>
  /\ poly_view = <<>>
  /\ state_ratios = <<>>
  /\ temperature = Num(0)
  /\ value = Num(0)

NoIndex ==
  /\ locally_owned = {}
  /\ mp_dof = <<>>
  /\ _dofs_map = <<>>

NoFill ==
  /\ database = <<>>
  /\ thrown = FALSE
  /\ state_property_host = <<>>
  /\ mechanical_property_host = <<>>
  /\ _mechanical_properties_host = <<>>

NoMesh ==
  /\ enth_active_fe_index = <<>>
  /\ active_fe_index = <<>>
  /\ nodal_temperature = <<>>
  /\ written = {}

NoLanes ==
  /\ lane = <<>>
  /\ state_at_call = <<>>

\* After MaterialProperty::MaterialProperty: reinit_dofs, set_initial_state,
\* fill_properties.  _property_values is still empty.
Init ==
  /\ NoMesh
  /\ NoLanes
  /\ _use_table \in BOOLEAN
  /\ material_id \in [Units -> MaterialIds]
  /\ user_index \in [Units -> {"liquid", "powder", "solid"}]
  /\ _state = [u \in Units |-> initial_state(user_index[u])]
  /\ _property_values = <<>>
  /\ temperature_average = <<>>
  /\ last_op = "construct"
  /\ melted = [u \in Units |-> FALSE]
  /\ NoHarness
  /\ NoIndex
  /\ NoFill

\* update(temperature_dof_handler, temperature): avg is the cell average
\* that compute_average_temperature returns for the given field.
Update(avg) ==
  LET r == [u \in Units |->
              update_unit_table[_use_table][material_id[u]][avg[u]][_state[u]]]
  IN  /\ temperature_average' = avg
      /\ _state' = [u \in Units |-> r[u].state]
      /\ _property_values' = [u \in Units |-> r[u].values]
      /\ last_op' = "update"
      /\ melted' =
           [u \in Units |->
              \/ melted[u]
              \/ /\ _state[u] = initial_state("solid")
                 /\ Lt(properties_view(material_id[u]).liquidus, avg[u])
                 /\ r[u].state = initial_state("liquid")]
      /\ value' = Num(0)
      /\ UNCHANGED <<_use_table, material_id, user_index>>
      /\ UNCHANGED <<table_pairs, table_view, poly_view, state_ratios,
                     temperature>>
      /\ UNCHANGED <<index_vars, fill_vars, mesh_vars, lane_vars>>

\* update_boundary_material_properties(temperature_dof_handler, temperature)
UpdateBoundary(avg) ==
  LET r == [u \in Units |->
              update_boundary_unit_table[_use_table][material_id[u]][avg[u]][
                                         _state[u]]]
  IN  /\ temperature_average' = avg
      /\ _state' = [u \in Units |-> r[u].state]
      /\ _property_values' = [u \in Units |-> r[u].values]
      /\ last_op' = "update_boundary_material_properties"
      /\ value' = Num(0)
      /\ UNCHANGED <<_use_table, material_id, user_index, melted>>
      /\ UNCHANGED <<table_pairs, table_view, poly_view, state_ratios,
                     temperature>>
      /\ UNCHANGED <<index_vars, fill_vars, mesh_vars, lane_vars>>

\* set_state(liquid_ratio, powder_ratio, cell_it_to_mf_cell_map, dof_handler):
\* ratios[u] holds the two tables' values at the quadrature points of unit u.
\* The history of melting starts afresh from the state that is set.
SetState(ratios) ==
  /\ _state' = [u \in Units |->
                  set_state_unit(LiquidAt(ratios[u]), PowderAt(ratios[u]))]
  /\ last_op' = "set_state"
  /\ melted' = [u \in Units |-> FALSE]
  /\ value' = Num(0)
  /\ UNCHANGED <<_use_table, material_id, user_index, _property_values,
                 temperature_average>>
  /\ UNCHANGED <<table_pairs, table_view, poly_view, state_ratios, temperature>>
  /\ UNCHANGED <<index_vars, fill_vars, mesh_vars, lane_vars>>

\* get_state_ratio(cell, material_state)
GetStateRatio(u, s) ==
  /\ value' = _state[u][MaterialStates[s]]
  /\ last_op' = "get_state_ratio"
  /\ UNCHANGED <<table_pairs, table_view, poly_view, state_ratios, temperature>>
  /\ UNCHANGED <<kernel_vars, index_vars, fill_vars, mesh_vars, lane_vars>>

\* compute_material_property(StateProperty::emissivity, material_id,
\* state_ratios, temperature), called for unit u with its own ratios at the
\* temperature of the last update.
ComputeMaterialProperty(u) ==
  /\ temperature_average # <<>>
  /\ value' = compute_material_property(
                 RatiosOf(_state[u]),
                 CurvesOf(material_id[u], PropertyIndex("emissivity"), _use_table),
                 temperature_average[u], _use_table)
  /\ last_op' = "compute_material_property"
  /\ UNCHANGED <<table_pairs, table_view, poly_view, state_ratios, temperature>>
  /\ UNCHANGED <<kernel_vars, index_vars, fill_vars, mesh_vars, lane_vars>>

Next == \E avg \in [Units -> Temps] : Update(avg)

Spec == Init /\ [][Next]_vars

-----------------------------------------------------------------------------
(* The public operations on a constructed object, each driven with a field *)
(* that is uniform over the mesh; the units differ in material and in      *)
(* initial state.                                                          *)

Uniform(x) == [u \in Units |-> x]

\* A constructed object on a mesh whose cells all start as powder; set_state
\* brings about the other states.
InitOps == Init /\ user_index = Uniform("powder")

\* Temperatures below every solidus, inside the melting interval of
\* material 0 and above every liquidus.
OpsTemps == {Num(0), Num(3), Num(MaxTemp)}

NextOps ==
  \/ \E T \in OpsTemps : Update(Uniform(T))
  \/ \E T \in OpsTemps : UpdateBoundary(Uniform(T))
  \/ \E c \in CellRatios : SetState(Uniform(c))
  \/ \E u \in Units, s \in 1..g_n_material_states : GetStateRatio(u, s)
  \/ \E u \in Units : ComputeMaterialProperty(u)

SpecOps == InitOps /\ [][NextOps]_vars

-----------------------------------------------------------------------------
(* Evaluation of one table: compute_property_from_table on every stored    *)
(* table of a bounded family.                                              *)

NoKernel ==
  /\ _use_table = TRUE
  /\ material_id = <<>>
  /\ user_index = <<>>
  /\ _state = <<>>
  /\ _property_values = <<>>
  /\ temperature_average = <<>>
  /\ melted = <<>>

BreakGrid == {2 * k : k \in 0..MaxBreak}

IsStrictlyAscending(b) == \A i \in 1..(Len(b) - 1) : b[i] < b[i + 1]

\* Table entries with strictly ascending breakpoints and any values.
AscendingEntries ==
  UNION {{[i \in 1..n |-> <<Num(b[i]), Num(v[i])>>] :
            b \in {c \in [1..n -> BreakGrid] : IsStrictlyAscending(c)},
            v \in [1..n -> 0..MaxCoef]} : n \in 1..table_size}

\* Table entries with breakpoints in any order (repeated ones included).
UnorderedEntries ==
  UNION {{[i \in 1..n |-> <<Num(b[i]), Num(i)>>] : b \in [1..n -> BreakGrid]} :
           n \in 1..table_size}

\* The entry "0,10;100,20;200,20".
ExampleEntry ==
  <<<<Num(0), Num(10)>>, <<Num(100), Num(20)>>, <<Num(200), Num(20)>>>>

TableEntries == AscendingEntries \cup UnorderedEntries \cup {ExampleEntry}

TableTemps == {Num(t) : t \in -1..(2 * MaxBreak + 1)} \cup {Num(50), Num(150)}

\* fill_properties has stored one table entry.
InitTable ==
  /\ NoMesh
  /\ NoLanes
  /\ NoKernel
  /\ NoIndex
  /\ NoFill
  /\ last_op = "construct"
  /\ \E e \in TableEntries :
       /\ table_pairs = Len(e)
       /\ table_view = PadTable(e)
  /\ poly_view = <<>>
  /\ state_ratios = <<>>
  /\ temperature = Num(0)
  /\ value = Num(0)

\* value = compute_property_from_table(table_view, .., T)
EvalTable(T) ==
  /\ temperature' = T
  /\ value' = compute_property_from_table(table_view, T)
  /\ last_op' = "table"
  /\ UNCHANGED <<table_pairs, table_view, poly_view, state_ratios>>
  /\ UNCHANGED <<kernel_vars, index_vars, fill_vars, mesh_vars, lane_vars>>

NextTable == \E T \in TableTemps : EvalTable(T)

SpecTable == InitTable /\ [][NextTable]_vars

-----------------------------------------------------------------------------
(* Evaluation of polynomials: compute_material_property in polynomial      *)
(* format on every stored polynomial of a bounded family.                  *)

\* Polynomial entries: at most polynomial_order coefficients pass the check
\* of fill_properties.
PolynomialEntries ==
  UNION {[1..n -> {Num(k) : k \in 0..MaxCoef}] : n \in 1..polynomial_order}

\* One state at ratio 1, or powder and solid at 1/2 each.
RatioChoices ==
  {[s \in 1..g_n_material_states |-> IF s = s0 THEN Num(1) ELSE Num(0)] :
     s0 \in 1..g_n_material_states}
  \cup {<<Rat(1, 2), Rat(1, 2), Num(0)>>}

PolyTemps == Temps \cup {Num(-1)}

\* fill_properties has stored entry e for state s0 and "1,1" for the others.
InitPoly ==
  /\ NoMesh
  /\ NoLanes
  /\ NoKernel
  /\ NoIndex
  /\ NoFill
  /\ last_op = "construct"
  /\ table_pairs = 0
  /\ table_view = <<>>
  /\ \E e \in PolynomialEntries, s0 \in 1..g_n_material_states :
       poly_view = [s \in 1..g_n_material_states |->
                      IF s = s0 THEN PadPolynomial(e)
                      ELSE PadPolynomial(<<Num(1), Num(1)>>)]
  /\ state_ratios \in RatioChoices
  /\ temperature = Num(0)
  /\ value = Num(0)

\* value = compute_material_property(property, material_id, state_ratios, T)
EvalPolynomial(T) ==
  /\ temperature' = T
  /\ value' = compute_material_property(state_ratios, poly_view, T, FALSE)
  /\ last_op' = "polynomial"
  /\ UNCHANGED <<table_pairs, table_view, poly_view, state_ratios>>
  /\ UNCHANGED <<kernel_vars, index_vars, fill_vars, mesh_vars, lane_vars>>

NextPoly == \E T \in PolyTemps : EvalPolynomial(T)

SpecPoly == InitPoly /\ [][NextPoly]_vars

-----------------------------------------------------------------------------
(* fill_properties on the property tree of one material with one thermal   *)
(* and one mechanical state property.                                      *)

\* The material state "solid" in the order of MaterialStates.
solid == CHOOSE s \in 1..g_n_material_states : MaterialStates[s] = "solid"

\* The number of breakpoint/value pairs or of coefficients the storage of
\* one curve holds.
StorageWidth(property_format) ==
  IF property_format = "table" THEN table_size ELSE polynomial_order + 1

\* The entry of n pairs or n coefficients given for state s; tag tells the
\* thermal entries (0) from the mechanical ones (100), so that every stored
\* number names the entry and the position it was read from.
ParsedProperty(property_format, tag, s, n) ==
  IF property_format = "table"
  THEN [i \in 1..n |-> <<Num(2 * (i - 1)), Num(tag + 10 * s + i)>>]
  ELSE [i \in 1..n |-> Num(tag + 10 * s + i)]

\* The property trees: the thermal property of a state is absent or has up
\* to StorageWidth + 1 pairs or coefficients, the mechanical one is absent
\* or has one or two.
DatabasesOf(f) ==
  {[property_format |-> f,
    thermal |-> [s \in 1..g_n_material_states |->
                   IF nt[s] = 0 THEN Absent ELSE ParsedProperty(f, 0, s, nt[s])],
    mechanical |-> [s \in 1..g_n_material_states |->
                      IF nm[s] = 0 THEN Absent
                      ELSE ParsedProperty(f, 100, s, nm[s])]] :
     nt \in [1..g_n_material_states -> 0..(StorageWidth(f) + 1)],
     nm \in [1..g_n_material_states -> 0..2]}

Databases == DatabasesOf("table") \cup DatabasesOf("polynomial")

\* A block after reinit and set_zero.
ZeroBlock(property_format) ==
  IF property_format = "table"
  THEN [i \in 1..table_size |-> <<Num(0), Num(0)>>]
  ELSE [i \in 1..(polynomial_order + 1) |-> Num(0)]

\* The parsed coefficients are written over the first slots of the block.
WritePolynomial(block, e) ==
  [i \in 1..(polynomial_order + 1) |-> IF i <= Len(e) THEN e[i] ELSE block[i]]

\* ASSERT_THROW(parsed_property_size <= table_size, ..) and
\* ASSERT_THROW(parsed_property_size <= polynomial_order, ..)
TooManyCoefficients(property_format, e) ==
  IF property_format = "table" THEN ~(Len(e) <= table_size)
  ELSE ~(Len(e) <= polynomial_order)

\* The loops over state and p: step k handles the thermal property (k odd)
\* or the mechanical property (k even) of state (k + 1) \div 2.
RECURSIVE FillStateProperties(_, _, _)
FillStateProperties(acc, db, k) ==
  IF acc.thrown \/ k > 2 * g_n_material_states THEN acc
  ELSE LET state == (k + 1) \div 2
           thermal == k % 2 = 1
           e == IF thermal THEN db.thermal[state] ELSE db.mechanical[state]
       IN  IF e = Absent THEN FillStateProperties(acc, db, k + 1)
           ELSE IF TooManyCoefficients(db.property_format, e)
                THEN [acc EXCEPT !.thrown = TRUE]
           ELSE IF db.property_format = "table"
                THEN FillStateProperties(
                       IF thermal
                       THEN [acc EXCEPT !.state_property_host[state] = PadTable(e)]
                       ELSE IF state = solid
                            THEN [acc EXCEPT !.mechanical_property_host = PadTable(e)]
                            ELSE acc,
                       db, k + 1)
           ELSE FillStateProperties(
                  IF thermal
                  THEN [acc EXCEPT !.state_property_host[state] =
                                      WritePolynomial(@, e)]
                  ELSE [acc EXCEPT !.mechanical_property_host =
                                      WritePolynomial(@, e)],
                  db, k + 1)

\* fill_properties(database): the host blocks and _mechanical_properties_host,
\* which reads the first element of the mechanical curve; when ASSERT_THROW
\* fires nothing after it is executed.
fill_properties(db) ==
  LET filled ==
        FillStateProperties(
          [thrown |-> FALSE,
           state_property_host |->
             [s \in 1..g_n_material_states |-> ZeroBlock(db.property_format)],
           mechanical_property_host |-> ZeroBlock(db.property_format)],
          db, 1)
  IN  [thrown |-> filled.thrown,
       state_property_host |-> filled.state_property_host,
       mechanical_property_host |-> filled.mechanical_property_host,
       _mechanical_properties_host |->
         IF filled.thrown THEN Absent
         ELSE IF db.property_format = "table"
              THEN filled.mechanical_property_host[1][2]
              ELSE filled.mechanical_property_host[1]]

\* The property tree has been read; no object is constructed yet.
InitFill ==
  /\ NoMesh
  /\ NoLanes
  /\ NoKernel
  /\ NoHarness
  /\ NoIndex
  /\ last_op = "start"
  /\ database \in Databases
  /\ thrown = FALSE
  /\ state_property_host = <<>>
  /\ mechanical_property_host = <<>>
  /\ _mechanical_properties_host = Absent

\* The constructor calls fill_properties(database).
FillProperties ==
  /\ last_op = "start"
  /\ LET r == fill_properties(database)
     IN  /\ thrown' = r.thrown
         /\ state_property_host' = r.state_property_host
         /\ mechanical_property_host' = r.mechanical_property_host
         /\ _mechanical_properties_host' = r._mechanical_properties_host
  /\ last_op' = "fill_properties"
  /\ UNCHANGED <<database, kernel_vars, harness_vars, index_vars, mesh_vars,
                 lane_vars>>

NextFill == FillProperties

SpecFill == InitFill /\ [][NextFill]_vars

-----------------------------------------------------------------------------
(* reinit_dofs and set_initial_state on a triangulation that changes.      *)

Cells == 1..MaxCells

\* distribute_dofs: every locally owned cell gets one dof of its own; the
\* indices of the owned cells fill a block first..first + n - 1 in any order.
Numberings(owned) ==
  UNION {{f \in [owned -> first..(first + Cardinality(owned) - 1)] :
            \A c1, c2 \in owned : c1 # c2 => f[c1] # f[c2]} :
         first \in 0..MaxFirstDof}

\* The value of i when the cell loop of reinit_dofs reaches cell c.
LoopIndex(owned, c) == Cardinality({c2 \in owned : c2 < c})

\* _dofs_map.clear() is missing: the entries of the old map stay, the loop
\* adds or overwrites those of the owned cells.
reinit_dofs_not_cleared(dofs_map, owned, numbering, fill) ==
  LET new_dofs == {numbering[c] : c \in owned}
      map == [d \in DOMAIN dofs_map \cup new_dofs |->
                IF d \in new_dofs
                THEN LoopIndex(owned, CHOOSE c \in owned : numbering[c] = d)
                ELSE dofs_map[d]]
  IN  [_dofs_map |-> map,
       _state |-> [j \in 0..(Cardinality(DOMAIN map) - 1) |->
                     [s \in {"liquid", "powder", "solid"} |-> fill]]]

\* reinit_dofs() once distribute_dofs has numbered the owned cells: the map is
\* cleared and filled in loop order, _state gets one column per entry; fill
\* is what the new columns hold (zero, or a signaling NaN in a debug build).
reinit_dofs(dofs_map, owned, numbering, fill) ==
  LET map == [d \in {numbering[c] : c \in owned} |->
                LoopIndex(owned, CHOOSE c \in owned : numbering[c] = d)]
  IN  [_dofs_map |-> map,
       _state |-> [j \in 0..(Cardinality(DOMAIN map) - 1) |->
                     [s \in {"liquid", "powder", "solid"} |-> fill]]]

\* The cell whose column of _state is j.
CellAt(dofs_map, owned, numbering, j) ==
  CHOOSE c \in owned : dofs_map[numbering[c]] = j

\* _state.set_zero() is missing: only the entry of the user index is written.
set_initial_state_not_zeroed(state, dofs_map, owned, numbering, indices) ==
  [j \in DOMAIN state |->
     [s \in {"liquid", "powder", "solid"} |->
        IF s = indices[CellAt(dofs_map, owned, numbering, j)] THEN Num(1)
        ELSE state[j][s]]]

\* set_initial_state(): _state is zeroed, then
\* state_view(user_index, _dofs_map.at(mp_dof)) = 1 for every owned cell.
set_initial_state(state, dofs_map, owned, numbering, indices) ==
  [j \in DOMAIN state |->
     initial_state(indices[CellAt(dofs_map, owned, numbering, j)])]

\* What a new block holds before it is written.
BlockFills == {Num(0), NaN}

\* cell->user_index() of the cells: every material state occurs.
UserIndices ==
  {[c \in Cells |-> MaterialStates[((c + k) % g_n_material_states) + 1]] :
     k \in 0..(g_n_material_states - 1)}

\* The constructor on the triangulation as it is: reinit_dofs, then
\* set_initial_state.
Constructed(owned, numbering, fill, indices) ==
  LET r == reinit_dofs(<<>>, owned, numbering, fill)
  IN  [_dofs_map |-> r._dofs_map,
       _state |-> set_initial_state(r._state, r._dofs_map, owned, numbering,
                                    indices)]

InitIndex ==
  /\ NoMesh
  /\ NoLanes
  /\ _use_table = TRUE
  /\ material_id = <<>>
  /\ _property_values = <<>>
  /\ temperature_average = <<>>
  /\ melted = <<>>
  /\ NoHarness
  /\ NoFill
  /\ last_op = "construct"
  /\ user_index \in UserIndices
  /\ locally_owned \in SUBSET Cells
  /\ mp_dof \in Numberings(locally_owned)
  /\ \E fill \in BlockFills :
       LET r == Constructed(locally_owned, mp_dof, fill, user_index)
       IN  _dofs_map = r._dofs_map /\ _state = r._state

\* A MaterialProperty is constructed on the triangulation as it is.
Construct(numbering, fill) ==
  LET r == Constructed(locally_owned, numbering, fill, user_index)
  IN  /\ mp_dof' = numbering
      /\ _dofs_map' = r._dofs_map
      /\ _state' = r._state
      /\ last_op' = "construct"
      /\ UNCHANGED <<locally_owned, user_index, _use_table, material_id,
                     _property_values, temperature_average, melted>>
      /\ UNCHANGED <<harness_vars, fill_vars, mesh_vars, lane_vars>>

\* reinit_dofs()
ReinitDofs(numbering, fill) ==
  LET r == reinit_dofs(_dofs_map, locally_owned, numbering, fill)
  IN  /\ mp_dof' = numbering
      /\ _dofs_map' = r._dofs_map
      /\ _state' = r._state
      /\ last_op' = "reinit_dofs"
      /\ UNCHANGED <<locally_owned, user_index, _use_table, material_id,
                     _property_values, temperature_average, melted>>
      /\ UNCHANGED <<harness_vars, fill_vars, mesh_vars, lane_vars>>

\* The triangulation is refined, coarsened or repartitioned: the set of
\* locally owned active cells changes, the object is not told.
Refine(owned) ==
  /\ owned # locally_owned
  /\ locally_owned' = owned
  /\ last_op' = "refine"
  /\ UNCHANGED <<mp_dof, _dofs_map, _state, user_index, _use_table, material_id,
                 _property_values, temperature_average, melted>>
  /\ UNCHANGED <<harness_vars, fill_vars, mesh_vars, lane_vars>>

NextIndex ==
  \/ \E numbering \in Numberings(locally_owned), fill \in BlockFills :
       Construct(numbering, fill)
  \/ \E numbering \in Numberings(locally_owned), fill \in BlockFills :
       ReinitDofs(numbering, fill)
  \/ \E owned \in SUBSET Cells : Refine(owned)

SpecIndex == InitIndex /\ [][NextIndex]_vars

-----------------------------------------------------------------------------
(* MechanicalPhysics: the activation of the cells of its DoFHandler, from  *)
(* the solid ratio MaterialProperty holds and the activation of the        *)
(* thermal cells (source/MechanicalPhysics.cc).                            *)

\* get_state_ratio(cell, material_state) > 0.99
solid_threshold == Rat(99, 100)

\* The solid ratios of the cells when MechanicalPhysics reads them: no solid,
\* exactly the threshold (a solid cell of a material that melts between 0
\* and 100, at T = 1), just above it (a solid cell of material 3 at T = 2),
\* all solid, and the NaN of a material whose solidus is its liquidus.
MechStates ==
  {[liquid |-> Sub(Num(1), x), powder |-> Num(0), solid |-> x] :
     x \in {Num(0), solid_threshold, Rat(1998, 1999), Num(1)}} \cup
  {[liquid |-> NaN, powder |-> NaN, solid |-> NaN]}

\* distribute_dofs on the FE_DGQ(0) handler of MaterialProperty: the owned
\* cells are numbered in iteration order.
CellOrderNumbering(owned) == [c \in owned |-> LoopIndex(owned, c)]

\* get_state_ratio(cell, material_state):
\* _state(material_state, _dofs_map.at(mp_dof))
get_state_ratio(state, dofs_map, numbering, c, s) ==
  state[dofs_map[numbering[c]]][s]

\* The test is >= 0.99: a cell exactly at the threshold counts as solid.
setup_dofs_fe_index_at_threshold(solid_ratio, thermal_fe_index) ==
  IF Leq(solid_threshold, solid_ratio) THEN thermal_fe_index ELSE 1

\* MechanicalPhysics::setup_dofs(thermal_dof_handler, ..): the index given to
\* a cell whose solid ratio is solid_ratio and whose thermal cell has the
\* active index thermal_fe_index.
setup_dofs_fe_index(solid_ratio, thermal_fe_index) ==
  IF Lt(solid_threshold, solid_ratio) THEN thermal_fe_index ELSE 1

\* MechanicalPhysics::MechanicalPhysics: the index given to a cell whose
\* solid ratio is solid_ratio.
constructor_fe_index(solid_ratio) ==
  IF Lt(solid_threshold, solid_ratio) THEN 0 ELSE 1

\* A constructed MaterialProperty whose cells have been through updates, the
\* thermal DoFHandler with some cells active, and the DoFHandler of
\* MechanicalPhysics just created: every cell has the default index 0.
InitMech ==
  /\ _use_table = TRUE
  /\ material_id = <<>>
  /\ _property_values = <<>>
  /\ temperature_average = <<>>
  /\ melted = <<>>
  /\ NoHarness
  /\ NoFill
  /\ NoLanes
  /\ nodal_temperature = <<>>
  /\ written = {}
  /\ last_op = "construct"
  /\ user_index = [c \in Cells |-> "solid"]
  /\ locally_owned \in SUBSET Cells
  /\ mp_dof = CellOrderNumbering(locally_owned)
  /\ _dofs_map = reinit_dofs(<<>>, locally_owned, mp_dof, Num(0))._dofs_map
  /\ _state \in [0..(Cardinality(locally_owned) - 1) -> MechStates]
  /\ enth_active_fe_index \in [Cells -> {0, 1}]
  /\ active_fe_index = [c \in Cells |-> 0]

\* MechanicalPhysics::MechanicalPhysics(communicator, fe_degree, geometry,
\* material_properties, reference_temperatures): the loop over the locally
\* owned cells.
MechanicalPhysics ==
  /\ active_fe_index' =
       [c \in Cells |->
          IF c \in locally_owned
          THEN constructor_fe_index(
                 get_state_ratio(_state, _dofs_map, mp_dof, c, "solid"))
          ELSE active_fe_index[c]]
  /\ last_op' = "MechanicalPhysics"
  /\ UNCHANGED <<enth_active_fe_index, nodal_temperature, written>>
  /\ UNCHANGED <<kernel_vars, harness_vars, index_vars, fill_vars, lane_vars>>

\* setup_dofs(thermal_dof_handler, temperature, has_melted, body_forces): the
\* loop over the locally owned cells; the call of setup_dofs(body_forces)
\* that ends it distributes the dofs and changes no index.
SetupDofs ==
  /\ active_fe_index' =
       [c \in Cells |->
          IF c \in locally_owned
          THEN setup_dofs_fe_index(
                 get_state_ratio(_state, _dofs_map, mp_dof, c, "solid"),
                 enth_active_fe_index[c])
          ELSE active_fe_index[c]]
  /\ last_op' = "setup_dofs"
  /\ UNCHANGED <<enth_active_fe_index, nodal_temperature, written>>
  /\ UNCHANGED <<kernel_vars, harness_vars, index_vars, fill_vars, lane_vars>>

\* Material is deposited: the thermal simulation activates the cell c of
\* thermal_dof_handler.
ActivateThermalCell(c) ==
  /\ enth_active_fe_index[c] = 1
  /\ enth_active_fe_index' = [enth_active_fe_index EXCEPT ![c] = 0]
  /\ last_op' = "activate"
  /\ UNCHANGED <<active_fe_index, nodal_temperature, written>>
  /\ UNCHANGED <<kernel_vars, harness_vars, index_vars, fill_vars, lane_vars>>

NextMech ==
  \/ MechanicalPhysics
  \/ SetupDofs
  \/ \E c \in Cells : ActivateThermalCell(c)

SpecMech == InitMech /\ [][NextMech]_vars

-----------------------------------------------------------------------------
(* compute_average_temperature on a mesh of MaxCells cells in a row: cell  *)
(* c lies between the nodes c and c + 1 and has the volume c.              *)

\* fe_collection.max_dofs_per_cell(), for elements of degree 1 on a cell with
\* two nodes.
dofs_per_cell == 2

Nodes == 1..(MaxCells + 1)

\* enth_cell->get_dof_indices(enth_dof_indices)
enth_dof_indices(c) == <<c, c + 1>>

\* The quadrature points on the reference cell: two points placed
\* symmetrically about its middle, as the Gauss points are.
quadrature_point == <<Rat(1, 4), Rat(3, 4)>>

\* fe_values.shape_value(i, q), i and q counted from 1: the two linear shape
\* functions.
shape_value(i, q) ==
  IF i = 1 THEN Sub(Num(1), quadrature_point[q]) ELSE quadrature_point[q]

\* fe_values.JxW(q) on cell c: the volume of the cell shared equally by the
\* quadrature points.
JxW(c, q) == Rat(c, n_q_points)

\* The loops over q and i of compute_average for cell c, from step k on
\* (step k is the pair q = k \div dofs_per_cell, i = k % dofs_per_cell of the
\* source): acc holds volume and temperature_average[mp_dof_index].
RECURSIVE AccumulateAverage(_, _, _, _)
AccumulateAverage(acc, c, T, k) ==
  IF k >= n_q_points * dofs_per_cell THEN acc
  ELSE LET q == (k \div dofs_per_cell) + 1
           i == (k % dofs_per_cell) + 1
       IN  AccumulateAverage(
             [volume |-> Add(acc.volume, Mul(shape_value(i, q), JxW(c, q))),
              sum |-> Add(acc.sum,
                          Mul(Mul(shape_value(i, q), T[enth_dof_indices(c)[i]]),
                              JxW(c, q)))],
             c, T, k + 1)

\* "temperature_average[mp_dof_index] /= volume" is missing.
cell_average_not_divided(c, T) ==
  AccumulateAverage([volume |-> Num(0), sum |-> Num(0)], c, T, 0).sum

\* The entry compute_average leaves for a locally owned cell c whose thermal
\* cell is active.
cell_average(c, T) ==
  LET r == AccumulateAverage([volume |-> Num(0), sum |-> Num(0)], c, T, 0)
  IN  Div(r.sum, r.volume)

\* compute_average_temperature(temperature_dof_handler, temperature): a
\* vector over the locally owned dofs of _mp_dof_handler, set to 0, then
\* filled by internal::compute_average for the cells that are locally owned
\* and have the active index 0.
compute_average_temperature(owned, numbering, fe_index, T) ==
  [d \in {numbering[c] : c \in owned} |->
     LET c == CHOOSE c2 \in owned : numbering[c2] = d
     IN  IF fe_index[c] = 0 THEN cell_average(c, T) ELSE Num(0)]

\* The values of the temperature vector at the nodes.
NodalTemps == {Num(1), Num(3)}

\* A constructed MaterialProperty, a thermal DoFHandler with some cells
\* active and a temperature vector.
InitAverage ==
  /\ _use_table = TRUE
  /\ material_id = <<>>
  /\ _property_values = <<>>
  /\ temperature_average = <<>>
  /\ melted = <<>>
  /\ NoHarness
  /\ NoFill
  /\ NoLanes
  /\ active_fe_index = <<>>
  /\ written = {}
  /\ last_op = "construct"
  /\ user_index = [c \in Cells |-> "solid"]
  /\ locally_owned \in SUBSET Cells
  /\ mp_dof \in Numberings(locally_owned)
  /\ LET r == Constructed(locally_owned, mp_dof, Num(0), user_index)
     IN  _dofs_map = r._dofs_map /\ _state = r._state
  /\ enth_active_fe_index \in [Cells -> {0, 1}]
  /\ nodal_temperature \in [Nodes -> NodalTemps]

\* temperature_average =
\*   compute_average_temperature(temperature_dof_handler, temperature)
ComputeAverageTemperature ==
  /\ temperature_average' =
       compute_average_temperature(locally_owned, mp_dof, enth_active_fe_index,
                                   nodal_temperature)
  /\ last_op' = "compute_average_temperature"
  /\ UNCHANGED <<_use_table, material_id, user_index, _state, _property_values,
                 melted>>
  /\ UNCHANGED <<harness_vars, index_vars, fill_vars, mesh_vars, lane_vars>>

NextAverage == ComputeAverageTemperature

SpecAverage == InitAverage /\ [][NextAverage]_vars

-----------------------------------------------------------------------------
(* update() with the body of its for_each run for the values of i in any   *)
(* order and interleaved: each body first writes the ratios of its unit,   *)
(* then reads them back to blend the properties.                           *)

Lanes == 0..(NumLanes - 1)

\* _property_values after reinit and set_zero: the column of one unit.
ZeroColumn == [p \in 1..g_n_thermal_state_properties |-> Num(0)]

\* The powder ratio is read at the next index: state_view(powder, dof + 1),
\* wrapping at the end of the block.
lane_new_state_next_dof(state_view, T_local, ids_view, i) ==
  new_state(T_local[i], ids_view[i], state_view[(i + 1) % NumLanes].powder)

\* Lines 294-316 for the index i of the for_each: the ratios computed from
\* temperature_average_local[dof] (T_local), the scalars of
\* material_ids_view(i) (ids_view) and state_view(powder, dof), with
\* dof = mp_dofs_view(i) = i.
lane_new_state(state_view, T_local, ids_view, i) ==
  new_state(T_local[i], ids_view[i], state_view[i].powder)

\* Lines 323-394 for the index i: the column of property_values_view blended
\* from state_view(., dof) and the local liquid_ratio.
lane_property_values(state_view, liquid_ratio, T_local, ids_view, use_table, i) ==
  property_values_of(state_view[i], liquid_ratio, T_local[i], ids_view[i],
                     use_table)

\* A constructed object on a mesh of NumLanes locally owned cells: the cells
\* differ in material, and in initial state or not.
InitLanes ==
  /\ NoHarness
  /\ NoIndex
  /\ NoFill
  /\ NoMesh
  /\ _use_table \in BOOLEAN
  /\ material_id = [i \in Lanes |-> i % Cardinality(MaterialIds)]
  /\ user_index \in {[i \in Lanes |-> "powder"],
                     [i \in Lanes |-> IF i % 2 = 0 THEN "solid" ELSE "powder"]}
  /\ _state = [i \in Lanes |-> initial_state(user_index[i])]
  /\ _property_values = <<>>
  /\ temperature_average = <<>>
  /\ melted = <<>>
  /\ lane = [i \in Lanes |-> [at |-> "done", liquid_ratio |-> Num(-1)]]
  /\ state_at_call = _state
  /\ last_op = "construct"

\* update() up to the for_each (lines 240-278): the averages are computed,
\* _property_values is reinitialised and zeroed, the views are taken.
BeginUpdate(avg) ==
  /\ last_op # "for_each"
  /\ temperature_average' = avg
  /\ _property_values' = [i \in Lanes |-> ZeroColumn]
  /\ lane' = [i \in Lanes |-> [at |-> "ratios", liquid_ratio |-> Num(-1)]]
  /\ state_at_call' = _state
  /\ last_op' = "for_each"
  /\ UNCHANGED <<_use_table, material_id, user_index, _state, melted>>
  /\ UNCHANGED <<harness_vars, index_vars, fill_vars, mesh_vars>>

\* The body for index i up to line 321: the three ratios are computed and
\* written to state_view(., dof).
LaneWriteState(i) ==
  /\ last_op = "for_each"
  /\ lane[i].at = "ratios"
  /\ LET ns == lane_new_state(_state, temperature_average, material_id, i)
     IN  /\ _state' = [_state EXCEPT ![i] = ns]
         /\ lane' = [lane EXCEPT ![i] = [at |-> "blend",
                                         liquid_ratio |-> ns.liquid]]
  /\ UNCHANGED <<_use_table, material_id, user_index, _property_values,
                 temperature_average, melted, last_op, state_at_call>>
  /\ UNCHANGED <<harness_vars, index_vars, fill_vars, mesh_vars>>

\* The body for index i from line 323 on: the properties are blended from
\* state_view(., dof) into property_values_view(., dof), the latent heat and
\* the radiation coefficient follow.
LaneBlend(i) ==
  /\ last_op = "for_each"
  /\ lane[i].at = "blend"
  /\ _property_values' =
       [_property_values EXCEPT
          ![i] = lane_property_values(_state, lane[i].liquid_ratio,
                                      temperature_average, material_id,
                                      _use_table, i)]
  /\ lane' = [lane EXCEPT ![i].at = "done"]
  /\ UNCHANGED <<_use_table, material_id, user_index, _state,
                 temperature_average, melted, last_op, state_at_call>>
  /\ UNCHANGED <<harness_vars, index_vars, fill_vars, mesh_vars>>

\* for_each returns once the body has run for every i, and update() with it.
EndUpdate ==
  /\ last_op = "for_each"
  /\ \A i \in Lanes : lane[i].at = "done"
  /\ last_op' = "update"
  /\ UNCHANGED <<kernel_vars, lane_vars>>
  /\ UNCHANGED <<harness_vars, index_vars, fill_vars, mesh_vars>>

NextLanes ==
  \/ \E avg \in [Lanes -> OpsTemps] : BeginUpdate(avg)
  \/ \E i \in Lanes : LaneWriteState(i)
  \/ \E i \in Lanes : LaneBlend(i)
  \/ EndUpdate

SpecLanes == InitLanes /\ [][NextLanes]_vars

-----------------------------------------------------------------------------
(* One process of a distributed run: it owns some of the cells, the others *)
(* are ghost cells whose dof indices it knows.                             *)

\* No filter: every active cell passes.
LocallyOwnedCell_every(owned, c) == TRUE

\* dealii::IteratorFilters::LocallyOwnedCell
LocallyOwnedCell(owned, c) == c \in owned

\* dealii::filter_iterators(_mp_dof_handler.active_cell_iterators(),
\*                         dealii::IteratorFilters::LocallyOwnedCell())
filter_iterators(owned) == {c \in Cells : LocallyOwnedCell(owned, c)}

\* The dof indices of _mp_dof_handler over the whole mesh: one per cell, in
\* cell order from any start.
GlobalNumberings ==
  {[c \in Cells |-> (c - 1 + k) % MaxCells] : k \in 0..(MaxCells - 1)}

\* The entries of the columns js of a block.
Entries(block, js) == {<<block, j>> : j \in js}

\* mp_dofs: _dofs_map.at(mp_dof[0]) of the cells of the loop.
LoopColumns(dofs_map, numbering, owned) ==
  {dofs_map[numbering[c]] : c \in filter_iterators(owned)}

\* The constructor of MaterialProperty on the process that owns
\* locally_owned: reinit_dofs, then set_initial_state.
InitOwner ==
  /\ NoHarness
  /\ NoFill
  /\ NoLanes
  /\ _use_table = TRUE
  /\ enth_active_fe_index = <<>>
  /\ active_fe_index = <<>>
  /\ nodal_temperature = <<>>
  /\ material_id = [c \in Cells |-> 0]
  /\ user_index \in UserIndices
  /\ locally_owned \in SUBSET Cells
  /\ mp_dof \in GlobalNumberings
  /\ LET r == Constructed(filter_iterators(locally_owned), mp_dof, Num(0),
                          user_index)
     IN  /\ _dofs_map = r._dofs_map
         /\ _state = r._state
         /\ written = Entries("_state", DOMAIN r._state)
  /\ _property_values = <<>>
  /\ temperature_average = <<>>
  /\ melted = <<>>
  /\ last_op = "construct"

\* set_initial_state(): _state.set_zero() writes every column, the for_each
\* the columns of the cells of the loop.
SetInitialState ==
  LET cells == filter_iterators(locally_owned)
  IN  /\ _state' = set_initial_state(_state, _dofs_map, cells, mp_dof, user_index)
      /\ written' = Entries("_state", DOMAIN _state) \cup
                    Entries("_state", LoopColumns(_dofs_map, mp_dof, locally_owned))
      /\ last_op' = "set_initial_state"
      /\ UNCHANGED <<_use_table, material_id, user_index, _property_values,
                     temperature_average, melted>>
      /\ UNCHANGED <<enth_active_fe_index, active_fe_index, nodal_temperature>>
      /\ UNCHANGED <<harness_vars, index_vars, fill_vars, lane_vars>>

\* update(temperature_dof_handler, temperature) for a field whose average is
\* T on every cell: _property_values is reinitialised with _dofs_map.size()
\* columns and zeroed, the for_each writes the columns of mp_dofs.
UpdateOwned(T) ==
  LET cols == LoopColumns(_dofs_map, mp_dof, locally_owned)
      all == 0..(Cardinality(DOMAIN _dofs_map) - 1)
      cell(j) == CellAt(_dofs_map, filter_iterators(locally_owned), mp_dof, j)
      r == [j \in cols |->
              update_unit_table[_use_table][material_id[cell(j)]][T][_state[j]]]
  IN  /\ temperature_average' = [j \in all |-> T]
      /\ _state' = [j \in DOMAIN _state |->
                      IF j \in cols THEN r[j].state ELSE _state[j]]
      /\ _property_values' =
           [j \in all |-> IF j \in cols THEN r[j].values ELSE ZeroColumn]
      /\ written' = Entries("_property_values", all) \cup
                    Entries("_property_values", cols) \cup Entries("_state", cols)
      /\ last_op' = "update"
      /\ UNCHANGED <<_use_table, material_id, user_index, melted>>
      /\ UNCHANGED <<enth_active_fe_index, active_fe_index, nodal_temperature>>
      /\ UNCHANGED <<harness_vars, index_vars, fill_vars, lane_vars>>

\* update_boundary_material_properties(temperature_dof_handler, temperature)
\* for a field whose average is T on every cell: _property_values is
\* reinitialised and zeroed, the cell loop writes the columns of its cells.
UpdateBoundaryOwned(T) ==
  LET cols == LoopColumns(_dofs_map, mp_dof, locally_owned)
      all == 0..(Cardinality(DOMAIN _dofs_map) - 1)
      cell(j) == CellAt(_dofs_map, filter_iterators(locally_owned), mp_dof, j)
      r == [j \in cols |->
              update_boundary_unit_table[_use_table][material_id[cell(j)]][T][
                                         _state[j]]]
  IN  /\ temperature_average' = [j \in all |-> T]
      /\ _property_values' =
           [j \in all |-> IF j \in cols THEN r[j].values ELSE ZeroColumn]
      /\ written' = Entries("_property_values", all) \cup
                    Entries("_property_values", cols)
      /\ last_op' = "update_boundary_material_properties"
      /\ UNCHANGED <<_use_table, material_id, user_index, _state, melted>>
      /\ UNCHANGED <<enth_active_fe_index, active_fe_index, nodal_temperature>>
      /\ UNCHANGED <<harness_vars, index_vars, fill_vars, lane_vars>>

NextOwner ==
  \/ SetInitialState
  \/ \E T \in OpsTemps : UpdateOwned(T)
  \/ \E T \in OpsTemps : UpdateBoundaryOwned(T)

SpecOwner == InitOwner /\ [][NextOwner]_vars

-----------------------------------------------------------------------------
(* Properties of update(), checked under Spec.                             *)

solidus_of(u) == properties_view(material_id[u]).solidus

liquidus_of(u) == properties_view(material_id[u]).liquidus

\* max(x, 0) of a change, NaN when the change is NaN.
Gain(x) == IF IsNaN(x) THEN NaN ELSE IF Lt(x, Num(0)) THEN Num(0) ELSE x

InUnitInterval(x) == Leq(Num(0), x) /\ Leq(x, Num(1))

\* C1: in every update() the powder fraction of every unit after the update
\* is less than or equal to its powder fraction before the update.
C1_PowderNeverCreated ==
  [][last_op' = "update" =>
       \A u \in Units : Leq(_state'[u].powder, _state[u].powder)]_vars

\* C2: after initialization and after every update(), the liquid, powder and
\* solid fractions of every unit lie in [0,1] and add up to 1.
C2_FractionsPartitionUnity ==
  \A u \in Units :
    /\ InUnitInterval(_state[u].liquid)
    /\ InUnitInterval(_state[u].powder)
    /\ InUnitInterval(_state[u].solid)
    /\ Add(Add(_state[u].liquid, _state[u].powder), _state[u].solid) = Num(1)

\* C3: for a unit whose material has solidus < liquidus, the liquid fraction
\* written by update() is 0 if T <= solidus, 1 if T >= liquidus and
\* (T - solidus) / (liquidus - solidus) in between: a function of T, solidus
\* and liquidus alone.
C3_LiquidRatioFormula ==
  last_op = "update" =>
    \A u \in Units :
      Lt(solidus_of(u), liquidus_of(u)) =>
        LET T == temperature_average[u]
            l == _state[u].liquid
        IN  /\ Leq(T, solidus_of(u)) => l = Num(0)
            /\ Leq(liquidus_of(u), T) => l = Num(1)
            /\ Lt(solidus_of(u), T) /\ Lt(T, liquidus_of(u)) =>
                 /\ IsFinite(l)
                 /\ Mul(l, Sub(liquidus_of(u), solidus_of(u))) =
                      Sub(T, solidus_of(u))

\* A unit of a melting material has been updated at a temperature strictly
\* between solidus and liquidus and is one third liquid.
C3_Witness ==
  /\ last_op = "update"
  /\ \E u \in Units :
       /\ Lt(solidus_of(u), temperature_average[u])
       /\ Lt(temperature_average[u], liquidus_of(u))
       /\ _state[u].liquid = Rat(1, 3)

\* update() reaches the quotient with liquidus - solidus = 0.
DividesByZero(u) ==
  /\ ~Lt(temperature_average[u], solidus_of(u))
  /\ ~Lt(liquidus_of(u), temperature_average[u])
  /\ Sub(liquidus_of(u), solidus_of(u)) = Num(0)

\* The specific heat of unit u holds the blend alone, no latent-heat term.
NoLatentHeatAdded(u) ==
  _property_values[u][PropertyIndex("specific_heat")] =
    compute_material_property(
      RatiosOf(_state[u]),
      CurvesOf(material_id[u], PropertyIndex("specific_heat"), _use_table),
      temperature_average[u], _use_table)

\* C4: for a unit whose material has solidus = liquidus, update() never
\* divides by zero, whatever the temperature: the liquid fraction is exactly
\* 0 or 1 and no latent-heat term is added to the specific heat.
C4_DegenerateIntervalGuarded ==
  last_op = "update" =>
    \A u \in Units :
      solidus_of(u) = liquidus_of(u) =>
        /\ ~DividesByZero(u)
        /\ _state[u].liquid \in {Num(0), Num(1)}
        /\ NoLatentHeatAdded(u)

\* C5: in every update() of a unit the decrease of the powder fraction is at
\* most the increase of the liquid fraction, and the increase of the solid
\* fraction is at most the decrease of the liquid fraction.
C5_RoutedThroughLiquid ==
  [][last_op' = "update" =>
       \A u \in Units :
         /\ Leq(Gain(Sub(_state[u].powder, _state'[u].powder)),
                Gain(Sub(_state'[u].liquid, _state[u].liquid)))
         /\ Leq(Gain(Sub(_state'[u].solid, _state[u].solid)),
                Gain(Sub(_state[u].liquid, _state'[u].liquid)))]_vars

\* C6: an update() above the liquidus takes a unit that is all solid to all
\* liquid, and in every later update(), whatever the temperature, the powder
\* fraction of that unit is 0.
C6_MeltedSolidHasNoPowder ==
  [][last_op' = "update" =>
       \A u \in Units :
         /\ (/\ _state[u] = initial_state("solid")
             /\ Lt(liquidus_of(u), temperature_average'[u]))
              => _state'[u] = initial_state("liquid")
         /\ melted[u] => _state'[u].powder = Num(0)]_vars

\* The value of the stored curve of material m, state s, property p at T.
\* The polynomial is evaluated by Horner's rule.
RECURSIVE Horner(_, _, _)
Horner(c, T, i) ==
  IF i > Len(c) THEN Num(0) ELSE Add(c[i], Mul(T, Horner(c, T, i + 1)))

CurveValues ==
  [use_table \in BOOLEAN |-> [m \in MaterialIds |->
     [s \in 1..g_n_material_states |-> [p \in 1..g_n_thermal_state_properties |->
        [T \in Temps |->
           IF use_table
           THEN compute_property_from_table(state_property_tables_view(m, s, p), T)
           ELSE Horner(state_property_polynomials_view(m, s, p), T, 1)]]]]]

CurveValue(m, s, p, T, use_table) == CurveValues[use_table][m][s][p][T]

\* C10: after update(), every thermal property of every unit other than the
\* specific heat and the radiation coefficient equals the sum over the three
\* states of the fraction written by this update times the value of the
\* state's curve at the unit's temperature.
C10_BlendUsesNewFractions ==
  last_op = "update" =>
    \A u \in Units :
      \A p \in 1..g_n_thermal_state_properties :
        p \notin {PropertyIndex("specific_heat"),
                  PropertyIndex("radiation_heat_transfer_coef")} =>
          _property_values[u][p] =
            Add(Add(Mul(_state[u][MaterialStates[1]],
                        CurveValue(material_id[u], 1, p, temperature_average[u],
                                   _use_table)),
                    Mul(_state[u][MaterialStates[2]],
                        CurveValue(material_id[u], 2, p, temperature_average[u],
                                   _use_table))),
                Mul(_state[u][MaterialStates[3]],
                    CurveValue(material_id[u], 3, p, temperature_average[u],
                               _use_table)))

\* An update has changed the fractions of a unit that started as powder: it
\* is now one third liquid and two thirds powder.
C10_Witness ==
  /\ last_op = "update"
  /\ \E u \in Units :
       /\ user_index[u] = "powder"
       /\ _state[u].liquid = Rat(1, 3)
       /\ _state[u].powder = Rat(2, 3)

\* The blend of property p for unit u: the sum over the three states of the
\* unit's fraction times the value of the state's curve at the unit's
\* temperature.
BlendAt(st, m, p, T, use_table) ==
  Add(Add(Mul(st[MaterialStates[1]], CurveValue(m, 1, p, T, use_table)),
          Mul(st[MaterialStates[2]], CurveValue(m, 2, p, T, use_table))),
      Mul(st[MaterialStates[3]], CurveValue(m, 3, p, T, use_table)))

BlendOf(u, p) ==
  BlendAt(_state[u], material_id[u], p, temperature_average[u], _use_table)

\* latent_heat / (liquidus - solidus) times the sum of the fractions of unit u.
LatentHeatTerm(u) ==
  Mul(Div(properties_view(material_id[u]).latent_heat,
          Sub(liquidus_of(u), solidus_of(u))),
      Add(Add(_state[u].liquid, _state[u].powder), _state[u].solid))

\* C11: in update() the latent-heat term, the sum over the states of
\* fraction * latent_heat / (liquidus - solidus), is added to the specific
\* heat of a unit if and only if 0 < liquid_ratio < 1; when liquid_ratio is 0
\* or 1 nothing is added.  With solidus = 1000, liquidus = 1100,
\* latent_heat = 500 and T = 1050 the liquid ratio is 1/2 and the term is 5
\* times the sum of the fractions.
C11_LatentHeatInMushyZone ==
  /\ last_op = "update" =>
       \A u \in Units :
         LET l == _state[u].liquid
             specific_heat == _property_values[u][PropertyIndex("specific_heat")]
             blend == BlendOf(u, PropertyIndex("specific_heat"))
         IN  /\ (Lt(Num(0), l) /\ Lt(l, Num(1))) =>
                  /\ specific_heat = Add(blend, LatentHeatTerm(u))
                  /\ specific_heat # blend
             /\ ~(Lt(Num(0), l) /\ Lt(l, Num(1))) => specific_heat = blend
             /\ l \in {Num(0), Num(1)} => specific_heat = blend
  /\ LET st == new_state(Num(1050), ExampleMaterial, Num(0))
     IN  /\ st.liquid = Rat(1, 2)
         /\ AccumulateLatentHeat(Num(0), RatiosOf(st), ExampleMaterial, 1) =
              Mul(Num(5), Add(Add(st.liquid, st.powder), st.solid))

\* A unit that was all powder has been updated inside the melting interval of
\* its material: it is one third liquid and its specific heat holds the blend
\* plus the latent-heat term.
C11_Witness ==
  /\ last_op = "update"
  /\ \E u \in Units :
       /\ _state[u].liquid = Rat(1, 3)
       /\ _state[u].powder = Rat(2, 3)
       /\ _property_values[u][PropertyIndex("specific_heat")] =
            Add(BlendOf(u, PropertyIndex("specific_heat")), Num(2))

\* emissivity * stefan_boltzmann * (T + T_infty) * (T * T + T_infty * T_infty)
\* for unit u, from the emissivity the unit now holds.
RadiationAt(emissivity, T, m) ==
  LET T_infty == properties_view(m).radiation_temperature_infty
  IN  Mul(Mul(Mul(emissivity, stefan_boltzmann), Add(T, T_infty)),
          Add(Mul(T, T), Mul(T_infty, T_infty)))

RadiationOf(u) ==
  RadiationAt(_property_values[u][PropertyIndex("emissivity")],
              temperature_average[u], material_id[u])

\* C12: after update() and after update_boundary_material_properties() the
\* radiation_heat_transfer_coef of every unit is
\* emissivity * stefan_boltzmann * (T + T_infty) * (T*T + T_infty*T_infty),
\* with emissivity the blend of the emissivity curves computed in the same
\* call: it depends neither on a curve stored for the radiation coefficient
\* nor on a value of an earlier call.
C12_RadiationDerived ==
  last_op \in {"update", "update_boundary_material_properties"} =>
    \A u \in Units :
      /\ _property_values[u][PropertyIndex("emissivity")] =
           BlendOf(u, PropertyIndex("emissivity"))
      /\ _property_values[u][PropertyIndex("radiation_heat_transfer_coef")] =
           RadiationOf(u)

\* An update at T = 3 has given a unit a finite, non-zero radiation
\* coefficient although the curves stored for it are not zero there.
C12_Witness ==
  /\ last_op = "update"
  /\ \E u \in Units :
       /\ temperature_average[u] = Num(3)
       /\ IsFinite(_property_values[u][PropertyIndex("radiation_heat_transfer_coef")])
       /\ _property_values[u][PropertyIndex("radiation_heat_transfer_coef")] # Num(0)
       /\ BlendOf(u, PropertyIndex("radiation_heat_transfer_coef")) # Num(0)

\* C13: update_boundary_material_properties() leaves the phase fractions of
\* every unit unchanged, leaves the first three thermal properties (density,
\* specific heat, thermal conductivity) at zero, blends the others and then
\* derives the radiation coefficient.
C13_BoundaryUpdate ==
  [][last_op' = "update_boundary_material_properties" =>
       /\ _state' = _state
       /\ \A u \in Units :
            /\ _property_values'[u][PropertyIndex("density")] = Num(0)
            /\ _property_values'[u][PropertyIndex("specific_heat")] = Num(0)
            /\ _property_values'[u][PropertyIndex("thermal_conductivity")] = Num(0)
            /\ _property_values'[u][PropertyIndex("emissivity")] =
                 BlendAt(_state[u], material_id[u], PropertyIndex("emissivity"),
                         temperature_average'[u], _use_table)
            /\ _property_values'[u][PropertyIndex("convection_heat_transfer_coef")] =
                 BlendAt(_state[u], material_id[u],
                         PropertyIndex("convection_heat_transfer_coef"),
                         temperature_average'[u], _use_table)
            /\ _property_values'[u][PropertyIndex("radiation_heat_transfer_coef")] =
                 RadiationAt(_property_values'[u][PropertyIndex("emissivity")],
                             temperature_average'[u], material_id[u])]_vars

\* The boundary update has run on a unit that is half liquid and half powder:
\* its density is zero and its emissivity is not.
C13_Witness ==
  /\ last_op = "update_boundary_material_properties"
  /\ \E u \in Units :
       /\ _state[u].liquid = Rat(1, 2)
       /\ _state[u].powder = Rat(1, 2)
       /\ _property_values[u][PropertyIndex("density")] = Num(0)
       /\ _property_values[u][PropertyIndex("emissivity")] # Num(0)
       /\ BlendOf(u, PropertyIndex("density")) # Num(0)

C19_OnlyUpdateWritesState ==
  [][last_op' # "update" => _state' = _state]_vars

\* C19, amended: no operation other than update() and set_state() changes a
\* phase fraction: update_boundary_material_properties, get_state_ratio and
\* compute_material_property leave every fraction of every unit unchanged.
C19_OnlyUpdateAndSetStateWriteState ==
  [][last_op' \notin {"update", "set_state"} => _state' = _state]_vars

\* get_state_ratio has returned the liquid fraction 1/2 of a unit whose state
\* set_state wrote.
C19_Witness ==
  /\ last_op = "get_state_ratio"
  /\ value = Rat(1, 2)
  /\ \E u \in Units : _state[u].liquid = Rat(1, 2) /\ _state[u].solid = Rat(1, 2)

\* C26: in every update() of a unit in which the powder fraction strictly
\* decreases (new < old as doubles compare), the solid fraction written by
\* that update is 0.
C26_PowderDecreaseLeavesNoSolid ==
  [][last_op' = "update" =>
       \A u \in Units :
         Lt(_state'[u].powder, _state[u].powder) => _state'[u].solid = Num(0)]_vars

\* An update inside the melting interval has taken powder away from a unit
\* that started as powder: it is two thirds liquid, one third powder and has
\* no solid.
C26_Witness ==
  /\ last_op = "update"
  /\ \E u \in Units :
       /\ user_index[u] = "powder"
       /\ temperature_average[u] = Num(3)
       /\ _state[u] = [liquid |-> Rat(2, 3), powder |-> Rat(1, 3), solid |-> Num(0)]

\* What a further update() with the temperatures of the last one would
\* write for unit u.
UpdateAgain(u) ==
  update_unit_table[_use_table][material_id[u]][temperature_average[u]][_state[u]]

\* C28: update() is idempotent for a fixed temperature field: a second
\* update() with the temperatures of the first writes the phase fractions and
\* the property values the first one wrote (nothing is accumulated across
\* calls); an entry that is NaN after the first call is NaN after the second.
C28_UpdateIdempotent ==
  last_op = "update" =>
    \A u \in Units :
      /\ UpdateAgain(u).state = _state[u]
      /\ UpdateAgain(u).values = _property_values[u]

\* An update inside the melting interval has changed a unit that started as
\* powder and given it a non-zero density and a latent-heat term; the same
\* update once more changes nothing.
C28_Witness ==
  /\ last_op = "update"
  /\ \E u \in Units :
       /\ user_index[u] = "powder"
       /\ _state[u].powder = Rat(2, 3)
       /\ _property_values[u][PropertyIndex("density")] # Num(0)
       /\ _property_values[u][PropertyIndex("specific_heat")] #
            BlendOf(u, PropertyIndex("specific_heat"))
       /\ UpdateAgain(u) = [state |-> _state[u], values |-> _property_values[u]]

-----------------------------------------------------------------------------
(* Properties of compute_property_from_table, checked under SpecTable.     *)

\* Breakpoint and value of the pair with 0-based index i of the stored table.
Breakpoint(i) == table_view[i + 1][1]

TableValue(i) == table_view[i + 1][2]

\* The table entry that was stored had strictly ascending breakpoints.
EntryStrictlyAscending ==
  \A i \in 1..(table_pairs - 1) : Lt(Breakpoint(i - 1), Breakpoint(i))

\* C7: for every table entry with strictly ascending breakpoints, of any
\* length up to table_size, the value at a temperature equal to a breakpoint
\* is the value paired with that breakpoint, the value below the first
\* breakpoint is the first value and the value above the last breakpoint is
\* the last value.
C7_TableRoundTrip ==
  (last_op = "table" /\ EntryStrictlyAscending) =>
    /\ \A k \in 0..(table_pairs - 1) :
         temperature = Breakpoint(k) => value = TableValue(k)
    /\ Lt(temperature, Breakpoint(0)) => value = TableValue(0)
    /\ Lt(Breakpoint(table_pairs - 1), temperature) =>
         value = TableValue(table_pairs - 1)

\* The indices i of the stored table with temperature < breakpoint[i].
Above == {i \in 0..(Len(table_view) - 1) : Lt(temperature, Breakpoint(i))}

FirstAbove == CHOOSE i \in Above : \A j \in Above : i <= j

\* The point at temperature on the line through the pairs i - 1 and i.
OnSegment(i) ==
  Add(TableValue(i - 1),
      Mul(Sub(TableValue(i), TableValue(i - 1)),
          Div(Sub(temperature, Breakpoint(i - 1)),
              Sub(Breakpoint(i), Breakpoint(i - 1)))))

\* C8: compute_property_from_table returns value[0] when T <= breakpoint[0];
\* otherwise, with i the first index such that T < breakpoint[i], value[last]
\* when there is no such i or i is the last index, and else the linear
\* interpolation between the pairs i - 1 and i at T.  The table
\* "0,10;100,20;200,20" gives 15 at T = 50 and 20 at T = 150.
C8_TableEvaluation ==
  last_op = "table" =>
    /\ value =
         IF Leq(temperature, Breakpoint(0)) THEN TableValue(0)
         ELSE IF Above = {} \/ FirstAbove = Len(table_view) - 1
              THEN TableValue(Len(table_view) - 1)
              ELSE OnSegment(FirstAbove)
    /\ table_view = PadTable(ExampleEntry) =>
         /\ temperature = Num(50) => value = Num(15)
         /\ temperature = Num(150) => value = Num(20)

\* The example table has been evaluated at T = 50, inside its first segment.
C8_Witness ==
  /\ last_op = "table"
  /\ table_view = PadTable(ExampleEntry)
  /\ temperature = Num(50)
  /\ value = Num(15)

\* C27: whenever compute_property_from_table takes the interpolation branch,
\* whatever the table holds (padded tables with repeated breakpoints and
\* tables that do not ascend included), 1 <= i <= size - 2 and
\* breakpoint[i] > breakpoint[i - 1]: index i - 1 is in range and the
\* divisor is not zero.  The value returned is the one of the branch.
C27_InterpolationIndexSafe ==
  last_op = "table" =>
    LET b == table_branch(table_view, temperature)
        size == Len(table_view)
    IN  /\ b.branch = "interpolate" =>
             /\ 1 <= b.i
             /\ b.i <= size - 2
             /\ Lt(Breakpoint(b.i - 1), Breakpoint(b.i))
             /\ Sub(Breakpoint(b.i), Breakpoint(b.i - 1)) # Num(0)
             /\ value = OnSegment(b.i)
        /\ b.branch = "first" => value = TableValue(0)
        /\ b.branch = "last" => value = TableValue(size - 1)

\* The interpolation branch has been taken at i = 2 on a table whose
\* breakpoints do not ascend and repeat before i - 1.
C27_Witness ==
  /\ last_op = "table"
  /\ table_branch(table_view, temperature) = [branch |-> "interpolate", i |-> 2]
  /\ ~Lt(Breakpoint(0), Breakpoint(1))
  /\ table_pairs = table_size

-----------------------------------------------------------------------------
(* Properties of the polynomial format, checked under SpecPoly.            *)

\* C9: in polynomial format the value of a curve at T is the sum over
\* i = 0..polynomial_order of coeff[i] * T^i (blended over the states with
\* the given ratios), and at T = 0 it is the constant coefficient alone.
C9_PolynomialEvaluation ==
  last_op = "polynomial" =>
    /\ value =
         Add(Add(Mul(state_ratios[1], Horner(poly_view[1], temperature, 1)),
                 Mul(state_ratios[2], Horner(poly_view[2], temperature, 1))),
             Mul(state_ratios[3], Horner(poly_view[3], temperature, 1)))
    /\ \A s \in 1..g_n_material_states :
         (temperature = Num(0) /\ state_ratios[s] = Num(1)) =>
           value = poly_view[s][1]

\* A curve with constant coefficient 1 and a non-zero coefficient of T has
\* been evaluated at T = 0 for a unit wholly in its state.
C9_Witness ==
  /\ last_op = "polynomial"
  /\ temperature = Num(0)
  /\ \E s \in 1..g_n_material_states :
       /\ state_ratios[s] = Num(1)
       /\ poly_view[s][1] = Num(1)
       /\ poly_view[s][2] = Num(1)
       /\ value = Num(1)

-----------------------------------------------------------------------------
(* Properties of fill_properties, checked under SpecFill.                  *)

\* The entries the property tree gives.
GivenEntries ==
  {database.thermal[s] : s \in 1..g_n_material_states} \cup
  {database.mechanical[s] : s \in 1..g_n_material_states}

\* C14: fill_properties throws exactly when an entry exceeds the capacity of
\* the storage: a table with more than table_size pairs, a polynomial with
\* more than polynomial_order + 1 coefficients; every entry within the
\* capacity is accepted.
C14_RejectedIffOverCapacity ==
  last_op = "fill_properties" =>
    (thrown <=> \E e \in GivenEntries :
                  Len(e) > StorageWidth(database.property_format))

\* The curve stored for an entry e: its n values followed by copies of the
\* n-th pair (table) or by zeros (polynomial).
IsPadded(stored, e) ==
  /\ Len(stored) = StorageWidth(database.property_format)
  /\ \A i \in 1..Len(stored) :
       stored[i] = IF i <= Len(e) THEN e[i]
                   ELSE IF database.property_format = "table" THEN e[Len(e)]
                   ELSE Num(0)

\* C15: after fill_properties a table given with n pairs holds the n pairs
\* in order followed by copies of the n-th pair in every remaining slot, and
\* a polynomial given with n coefficients holds them in ascending order
\* followed by zeros in every remaining slot: so for the thermal curve of
\* every state and for the mechanical curve given under the solid state.
C15_CurvesPadded ==
  (last_op = "fill_properties" /\ ~thrown) =>
    /\ \A s \in 1..g_n_material_states :
         database.thermal[s] # Absent =>
           IsPadded(state_property_host[s], database.thermal[s])
    /\ database.mechanical[solid] # Absent =>
         IsPadded(mechanical_property_host, database.mechanical[solid])

\* C16: in both formats the stored mechanical curve and the value of
\* get_mechanical_property come from the entry of the solid state alone: they
\* are what the same tree without its liquid and powder mechanical entries
\* gives.
C16_MechanicalFromSolidOnly ==
  (last_op = "fill_properties" /\ ~thrown) =>
    /\ mechanical_property_host =
         IF database.mechanical[solid] = Absent
         THEN ZeroBlock(database.property_format)
         ELSE IF database.property_format = "table"
              THEN PadTable(database.mechanical[solid])
              ELSE PadPolynomial(database.mechanical[solid])
    /\ _mechanical_properties_host =
         IF database.mechanical[solid] = Absent THEN Num(0)
         ELSE IF database.property_format = "table"
              THEN database.mechanical[solid][1][2]
              ELSE database.mechanical[solid][1]

-----------------------------------------------------------------------------
(* Properties of construction and of reinit_dofs, checked under SpecIndex. *)

\* The column of _state that the index gives cell c.
ColumnOf(c) == _dofs_map[mp_dof[c]]

\* C18: after construction of MaterialProperty every locally owned unit has
\* exactly one phase fraction equal to 1, the one named by its initial phase
\* tag, and the other two equal to 0.
C18_InitialStateIsOnePhase ==
  last_op = "construct" =>
    \A c \in locally_owned :
      \A s \in {"liquid", "powder", "solid"} :
        _state[ColumnOf(c)][s] = IF s = user_index[c] THEN Num(1) ELSE Num(0)

\* An object has been constructed on a triangulation with at least two owned
\* cells of different initial phase.
C18_Witness ==
  /\ last_op = "construct"
  /\ \E c1, c2 \in locally_owned :
       /\ user_index[c1] = "powder"
       /\ user_index[c2] = "solid"
       /\ _state[ColumnOf(c1)].powder = Num(1)
       /\ _state[ColumnOf(c2)].solid = Num(1)

\* C20: after every reinit_dofs() the index maps the locally owned units
\* one-to-one onto 0..n-1, n the number of locally owned units, holds no
\* entry from before the rebuild, and the phase-fraction array has exactly n
\* columns: every offset of the index is a column of the array.
C20_IndexIsDenseBijection ==
  last_op \in {"construct", "reinit_dofs"} =>
    LET n == Cardinality(locally_owned)
    IN  /\ DOMAIN mp_dof = locally_owned
        /\ DOMAIN _dofs_map = {mp_dof[c] : c \in locally_owned}
        /\ \A c1, c2 \in locally_owned : c1 # c2 => ColumnOf(c1) # ColumnOf(c2)
        /\ {ColumnOf(c) : c \in locally_owned} = 0..(n - 1)
        /\ DOMAIN _state = 0..(n - 1)

\* reinit_dofs has rebuilt the index after the triangulation lost a cell and
\* the remaining cells were renumbered: the index has two entries and a dof
\* index of the old numbering is no longer in it.
C20_Witness ==
  /\ last_op = "reinit_dofs"
  /\ Cardinality(locally_owned) = 2
  /\ Cardinality(DOMAIN _dofs_map) = 2
  /\ 0 \notin DOMAIN _dofs_map

-----------------------------------------------------------------------------
(* Properties of MechanicalPhysics, checked under SpecMech.                *)

\* The solid ratio of cell c exceeds the threshold.
IsSolidCell(c) ==
  Lt(solid_threshold, get_state_ratio(_state, _dofs_map, mp_dof, c, "solid"))

\* C21 as stated: whenever MechanicalPhysics has set the activation of its
\* cells, in the constructor or in setup_dofs with a thermal DoFHandler, a
\* locally owned cell has the active index 0 only if its solid ratio is
\* strictly greater than 0.99 and its thermal cell is active, and every
\* other locally owned cell has the index 1.
C21_ActiveOnlyIfSolidAndThermal ==
  last_op \in {"MechanicalPhysics", "setup_dofs"} =>
    \A c \in locally_owned :
      /\ active_fe_index[c] = 0 =>
           (IsSolidCell(c) /\ enth_active_fe_index[c] = 0)
      /\ ~(IsSolidCell(c) /\ enth_active_fe_index[c] = 0) =>
           active_fe_index[c] = 1

\* C21, amended: after setup_dofs with a thermal DoFHandler a locally owned
\* cell has the active index 0 exactly when its solid ratio is strictly
\* greater than 0.99 and its thermal cell is active, and the index 1
\* otherwise; after the constructor it has the index 0 exactly when its solid
\* ratio is strictly greater than 0.99, whatever the thermal cell is.
C21_ActivationByOperation ==
  /\ last_op = "setup_dofs" =>
       \A c \in locally_owned :
         active_fe_index[c] =
           IF IsSolidCell(c) /\ enth_active_fe_index[c] = 0 THEN 0 ELSE 1
  /\ last_op = "MechanicalPhysics" =>
       \A c \in locally_owned :
         active_fe_index[c] = IF IsSolidCell(c) THEN 0 ELSE 1

\* setup_dofs has run on a mesh with a cell exactly at the threshold and
\* thermally active, which is inactive, a solid cell that is thermally
\* inactive, which is inactive too, and a solid cell that is active.
C21_Witness ==
  /\ last_op = "setup_dofs"
  /\ \E c1, c2, c3 \in locally_owned :
       /\ get_state_ratio(_state, _dofs_map, mp_dof, c1, "solid") = solid_threshold
       /\ enth_active_fe_index[c1] = 0
       /\ active_fe_index[c1] = 1
       /\ IsSolidCell(c2) /\ enth_active_fe_index[c2] = 1
       /\ active_fe_index[c2] = 1
       /\ IsSolidCell(c3) /\ enth_active_fe_index[c3] = 0
       /\ active_fe_index[c3] = 0

-----------------------------------------------------------------------------
(* Properties of compute_average_temperature, checked under SpecAverage.   *)

\* The temperature field at quadrature point q of cell c.
FieldAt(c, q) ==
  Add(Mul(shape_value(1, q), nodal_temperature[enth_dof_indices(c)[1]]),
      Mul(shape_value(2, q), nodal_temperature[enth_dof_indices(c)[2]]))

\* The integral of the field over cell c divided by the volume of the cell,
\* both by the quadrature rule.
VolumeAverage(c) ==
  Div(Add(Mul(JxW(c, 1), FieldAt(c, 1)), Mul(JxW(c, 2), FieldAt(c, 2))),
      Add(JxW(c, 1), JxW(c, 2)))

\* C24: compute_average_temperature gives every locally owned unit whose
\* thermal cell is active (active index 0) the volume-weighted average of the
\* nodal temperature field over the unit, so that a field that is the
\* constant k on the unit gives k; it skips every other unit, whose entry
\* stays at the initial value 0; the vector has one entry per locally owned
\* unit and no other.
C24_AverageOverActiveCells ==
  last_op = "compute_average_temperature" =>
    /\ DOMAIN temperature_average = {mp_dof[c] : c \in locally_owned}
    /\ \A c \in locally_owned :
         /\ enth_active_fe_index[c] = 0 =>
              /\ temperature_average[mp_dof[c]] = VolumeAverage(c)
              /\ \A k \in NodalTemps :
                   (\A i \in 1..dofs_per_cell :
                      nodal_temperature[enth_dof_indices(c)[i]] = k)
                     => temperature_average[mp_dof[c]] = k
         /\ enth_active_fe_index[c] # 0 => temperature_average[mp_dof[c]] = Num(0)

\* The average has been computed on a mesh with an inactive cell between
\* nodes at 3, whose entry is 0, and an active cell of volume 2 between a
\* node at 1 and a node at 3, whose entry is 2.
C24_Witness ==
  /\ last_op = "compute_average_temperature"
  /\ \E c1, c2 \in locally_owned :
       /\ enth_active_fe_index[c1] = 1
       /\ nodal_temperature[c1] = Num(3) /\ nodal_temperature[c1 + 1] = Num(3)
       /\ temperature_average[mp_dof[c1]] = Num(0)
       /\ c2 = 2
       /\ enth_active_fe_index[c2] = 0
       /\ nodal_temperature[c2] = Num(1) /\ nodal_temperature[c2 + 1] = Num(3)
       /\ temperature_average[mp_dof[c2]] = Num(2)

-----------------------------------------------------------------------------
(* Properties of the for_each of update(), checked under SpecLanes.        *)

\* What the body writes for unit i when it runs alone on the arrays as they
\* were when update() was called.
AloneFrom(i) ==
  update_unit_table[_use_table][material_id[i]][temperature_average[i]][
                    state_at_call[i]]

\* C22: within one update() the body for unit i reads only the temperature,
\* the material and the previous ratios of unit i and writes only the ratios
\* and the property values of unit i: until the body for i has run, the
\* entries of unit i are those update() started from, whatever the other
\* bodies have done, and once it has run they are what the body writes when
\* it runs alone; the arrays update() returns are the same for every order
\* and interleaving of the bodies.
C22_UnitsIndependent ==
  last_op \in {"for_each", "update"} =>
    \A i \in Lanes :
      /\ lane[i].at = "ratios" =>
           _state[i] = state_at_call[i] /\ _property_values[i] = ZeroColumn
      /\ lane[i].at = "blend" =>
           _state[i] = AloneFrom(i).state /\ _property_values[i] = ZeroColumn
      /\ lane[i].at = "done" =>
           /\ _state[i] = AloneFrom(i).state
           /\ _property_values[i] = AloneFrom(i).values

\* update() has returned after changing the ratios of two units that differ
\* in material: the first is two thirds liquid and one third powder, the
\* second all liquid.
C22_Witness ==
  /\ last_op = "update"
  /\ \A i \in Lanes : lane[i].at = "done"
  /\ state_at_call[0].powder = Num(1)
  /\ state_at_call[1].powder = Num(1)
  /\ _state[0].powder = Rat(1, 3)
  /\ _state[1].liquid = Num(1)
  /\ _property_values[1] # _property_values[0]

-----------------------------------------------------------------------------
(* Properties of a process of a distributed run, checked under SpecOwner.  *)

\* The cells, owned or not, that the index gives column j.
CellsOfColumn(j) ==
  {c \in Cells : mp_dof[c] \in DOMAIN _dofs_map /\ _dofs_map[mp_dof[c]] = j}

\* C23: update(), update_boundary_material_properties() and
\* set_initial_state() write entries of _state and _property_values only for
\* units the process locally owns: every entry written is the entry of a
\* locally owned cell, and no entry is that of a ghost cell.
C23_OnlyOwnedWritten ==
  last_op \in {"construct", "set_initial_state", "update",
               "update_boundary_material_properties"} =>
    /\ \A e \in written :
         /\ CellsOfColumn(e[2]) # {}
         /\ CellsOfColumn(e[2]) \subseteq locally_owned
    /\ \A c \in Cells \ locally_owned : mp_dof[c] \notin DOMAIN _dofs_map

\* update() has run on a process that owns two cells of a mesh with a ghost
\* cell: it wrote the ratios and the property values of its two cells.
C23_Witness ==
  /\ last_op = "update"
  /\ Cardinality(locally_owned) = 2
  /\ locally_owned # Cells
  /\ written = Entries("_state", {0, 1}) \cup Entries("_property_values", {0, 1})
  /\ \E j \in DOMAIN _state : _state[j].liquid = Rat(2, 3)

====
